---- MODULE Spec2Model ----
(***************************************************************************)
(* Verification model of aurora: the validator (src/src/validator.rs) and  *)
(* the evaluator (src/src/machine.rs, src/src/value.rs).                   *)
(*                                                                         *)
(* A source file is represented by its AST (src/src/ast.rs) with the byte  *)
(* spans the parser (src/src/parser.rs) gives to each node when the file   *)
(* is written in compact form: items separated by one line feed, one blank *)
(* between an HTTP method and its URL, no other white space.               *)
(*                                                                         *)
(* Text is a sequence of one-character strings.  Names are strings.        *)
(***************************************************************************)
EXTENDS Integers, Sequences, FiniteSets, TLC

\* ------------------------------------------------------------------------
\* Bounds of the input space
\* ------------------------------------------------------------------------
\* longest file, in items, of the declaration family
MaxItems == 2
\* longest entry body, in entry items, of the entry family
MaxBody == 2
\* longest array literal, in elements
MaxElems == 3
\* longest literal run of a string, in characters and escape sequences
MaxUnits == 3
\* longest string literal, in literal runs and embedded expressions
MaxParts == 3
\* longest source text and longest template, in fragments
MaxFrags == 3
\* the entries of a dictionary value that is rendered
MaxFields == 2
MaxOffset == 3

\* ------------------------------------------------------------------------
\* Generic helpers
\* ------------------------------------------------------------------------
None == [some |-> FALSE]
Some(v) == [some |-> TRUE, v |-> v]

Ok(v) == [ok |-> TRUE, v |-> v]
Err(d) == [ok |-> FALSE, err |-> d]

RECURSIVE SeqsUpTo(_, _)
\* all sequences over S of length 0..n
SeqsUpTo(S, n) ==
    IF n = 0 THEN {<<>>}
    ELSE LET shorter == SeqsUpTo(S, n - 1)
         IN shorter \cup {Append(s, x) : s \in {t \in shorter : Len(t) = n - 1}, x \in S}

\* ------------------------------------------------------------------------
\* span.rs
\* ------------------------------------------------------------------------
SpanNew(start, end) == [start |-> start, end |-> end]

\* a join that keeps the span it is called on
SpanToSelf(self, other) == SpanNew(self.start, self.end)

SpanTo(self, other) == SpanNew(self.start, other.end)

\* ------------------------------------------------------------------------
\* diagnostic.rs
\* ------------------------------------------------------------------------
\* Diagnostic::error(message, span): no label yet
DiagnosticError(message, span) == [message |-> message, span |-> span, labels |-> <<>>]

\* Diagnostic::label
DiagnosticLabel(d, message, span) ==
    [d EXCEPT !.labels = Append(@, [message |-> message, span |-> span])]

\* Diagnostic::primary_label: a label on the diagnostic's own span
PrimaryLabel(d, message) == DiagnosticLabel(d, message, d.span)

\* ------------------------------------------------------------------------
\* ast.rs: expressions before layout (no span yet)
\* ------------------------------------------------------------------------
ShInt(text) == [k |-> "IntegerLiteral", text |-> text]
ShFloat(text) == [k |-> "FloatLiteral", text |-> text]
ShNull == [k |-> "NullLiteral"]
ShRef(name) == [k |-> "NameRef", name |-> name]
ShStr(parts) == [k |-> "StringLiteral", parts |-> parts]
ShDict(fields) == [k |-> "Dictionary", fields |-> fields]
ShArr(elems) == [k |-> "Array", elems |-> elems]
ShLit(raw) == [k |-> "Literal", raw |-> raw]
ShCode(e) == [k |-> "Expr", expr |-> e]
ShField(key, value) == [key |-> key, value |-> value]

RECURSIVE Width(_)
RECURSIVE WidthParts(_)
RECURSIVE WidthFields(_)
RECURSIVE WidthElems(_)
\* number of bytes of the compact source text of an expression
Width(sh) ==
    CASE sh.k = "IntegerLiteral" -> Len(sh.text)
      [] sh.k = "FloatLiteral" -> Len(sh.text)
      [] sh.k = "NullLiteral" -> 4
      [] sh.k = "NameRef" -> Len(sh.name)
      [] sh.k = "StringLiteral" -> 2 + WidthParts(sh.parts)
      [] sh.k = "Dictionary" -> 2 + WidthFields(sh.fields)
      [] sh.k = "Array" -> 2 + WidthElems(sh.elems)

WidthParts(parts) ==
    IF parts = <<>> THEN 0
    ELSE (IF Head(parts).k = "Literal" THEN Len(Head(parts).raw)
          ELSE 4 + Width(Head(parts).expr))
         + WidthParts(Tail(parts))

WidthFields(fields) ==
    IF fields = <<>> THEN 0
    ELSE Width(Head(fields).key) + 1 + Width(Head(fields).value)
         + (IF Len(fields) > 1 THEN 1 ELSE 0) + WidthFields(Tail(fields))

WidthElems(elems) ==
    IF elems = <<>> THEN 0
    ELSE Width(Head(elems)) + (IF Len(elems) > 1 THEN 1 ELSE 0) + WidthElems(Tail(elems))

RECURSIVE LayExpr(_, _)
RECURSIVE LayParts(_, _)
RECURSIVE LayFields(_, _)
RECURSIVE LayElems(_, _)
\* the ast::Expr the parser builds for the expression written at byte `at`
LayExpr(sh, at) ==
    LET span == SpanNew(at, at + Width(sh))
    IN CASE sh.k = "IntegerLiteral" -> [k |-> sh.k, span |-> span, text |-> sh.text]
         [] sh.k = "FloatLiteral" -> [k |-> sh.k, span |-> span, text |-> sh.text]
         [] sh.k = "NullLiteral" -> [k |-> sh.k, span |-> span]
         [] sh.k = "NameRef" -> [k |-> sh.k, span |-> span, name |-> sh.name]
         [] sh.k = "StringLiteral" ->
                [k |-> sh.k, span |-> span, parts |-> LayParts(sh.parts, at + 1)]
         [] sh.k = "Dictionary" ->
                [k |-> sh.k, span |-> span, fields |-> LayFields(sh.fields, at + 1)]
         [] sh.k = "Array" ->
                [k |-> sh.k, span |-> span, elems |-> LayElems(sh.elems, at + 1)]

LayParts(parts, at) ==
    IF parts = <<>> THEN <<>>
    ELSE LET p == Head(parts)
         IN IF p.k = "Literal"
            THEN <<[k |-> "Literal", raw |-> p.raw]>>
                 \o LayParts(Tail(parts), at + Len(p.raw))
            ELSE <<[k |-> "Expr", expr |-> LayExpr(p.expr, at + 2)]>>
                 \o LayParts(Tail(parts), at + 4 + Width(p.expr))

LayFields(fields, at) ==
    IF fields = <<>> THEN <<>>
    ELSE LET f == Head(fields)
             vat == at + Width(f.key) + 1
         IN <<[key |-> LayExpr(f.key, at), value |-> LayExpr(f.value, vat)]>>
            \o LayFields(Tail(fields), vat + Width(f.value) + 1)

LayElems(elems, at) ==
    IF elems = <<>> THEN <<>>
    ELSE <<LayExpr(Head(elems), at)>>
         \o LayElems(Tail(elems), at + Width(Head(elems)) + 1)

\* ------------------------------------------------------------------------
\* ast.rs: items before layout
\* ------------------------------------------------------------------------
ShRequest(method, url) == [k |-> "Request", method |-> method, url |-> url]
ShSection(name, body) == [k |-> "Section", name |-> name, body |-> body]
ShConst(name, expr) == [k |-> "Const", name |-> name, expr |-> expr]
ShEntry(name, body) == [k |-> "Entry", name |-> name, body |-> body]

\* `METHOD url` followed by a line feed, or `[Name]expr` followed by one
WidthEntryItem(sh) ==
    IF sh.k = "Request" THEN Len(sh.method) + 1 + Width(sh.url) + 1
    ELSE 1 + Len(sh.name) + 1 + Width(sh.body) + 1

RECURSIVE WidthBody(_)
WidthBody(body) ==
    IF body = <<>> THEN 0 ELSE WidthEntryItem(Head(body)) + WidthBody(Tail(body))

\* `const NAME=expr` or `entry NAME{ ... }`, followed by a line feed
WidthItem(sh) ==
    IF sh.k = "Const" THEN 6 + Len(sh.name) + 1 + Width(sh.expr) + 1
    ELSE 6 + Len(sh.name) + 1 + WidthBody(sh.body) + 1 + 1

\* parser.rs opt_parse_entry_item: the EntryItem and its span
LayEntryItem(sh, at) ==
    IF sh.k = "Request"
    THEN LET method_span == SpanNew(at, at + Len(sh.method))
             url == LayExpr(sh.url, at + Len(sh.method) + 1)
         IN [k |-> "Request", method |-> sh.method, url |-> url,
             span |-> SpanTo(method_span, url.span)]
    ELSE LET open_span == SpanNew(at, at + 1)
             name == [text |-> sh.name, span |-> SpanNew(at + 1, at + 1 + Len(sh.name))]
             body == LayExpr(sh.body, at + 1 + Len(sh.name) + 1)
         IN [k |-> "Section", name |-> name, body |-> body,
             span |-> SpanTo(open_span, body.span)]

RECURSIVE LayBody(_, _)
LayBody(body, at) ==
    IF body = <<>> THEN <<>>
    ELSE <<LayEntryItem(Head(body), at)>>
         \o LayBody(Tail(body), at + WidthEntryItem(Head(body)))

\* parser.rs parse_const / parse_entry: the Item and its span
LayItem(sh, at) ==
    LET kw_span == SpanNew(at, at + 5)
        name == [text |-> sh.name, span |-> SpanNew(at + 6, at + 6 + Len(sh.name))]
    IN IF sh.k = "Const"
       THEN LET expr == LayExpr(sh.expr, at + 6 + Len(sh.name) + 1)
            IN [k |-> "Const", name |-> name, expr |-> expr,
                span |-> SpanTo(kw_span, expr.span)]
       ELSE LET bat == at + 6 + Len(sh.name) + 1
                close_span == SpanNew(bat + WidthBody(sh.body), bat + WidthBody(sh.body) + 1)
            IN [k |-> "Entry", name |-> name, body |-> LayBody(sh.body, bat),
                span |-> SpanTo(kw_span, close_span)]

RECURSIVE LayItems(_, _)
\* parser.rs parse: the items of the file whose text starts at byte `at`
LayItems(shs, at) ==
    IF shs = <<>> THEN <<>>
    ELSE <<LayItem(Head(shs), at)>> \o LayItems(Tail(shs), at + WidthItem(Head(shs)))

\* ------------------------------------------------------------------------
\* validated.rs: types
\* ------------------------------------------------------------------------
TyString == [t |-> "String"]
TyInteger == [t |-> "Integer"]
TyFloat == [t |-> "Float"]
TyNull == [t |-> "Null"]
TyUnknown == [t |-> "Unknown"]
TyDictionary(members) == [t |-> "Dictionary", m |-> members]
TyArray(elem) == [t |-> "Array", e |-> elem]
TyUnion(members) == [t |-> "Union", m |-> members]

\* the derived PartialEq of Ty: same variant, equal payloads
TyEq(a, b) == a = b

\* Vec<Ty>::contains
TyContains(tys, ty) == \E i \in 1..Len(tys) : TyEq(tys[i], ty)

\* ------------------------------------------------------------------------
\* validator.rs: literals
\* ------------------------------------------------------------------------
Digits == <<"0", "1", "2", "3", "4", "5", "6", "7", "8", "9">>
IsDigit(c) == \E i \in 1..10 : Digits[i] = c
DigitVal(c) == (CHOOSE i \in 1..10 : Digits[i] = c) - 1

\* the decimal digits of i64::MAX
I64Max == <<"9", "2", "2", "3", "3", "7", "2", "0", "3", "6",
            "8", "5", "4", "7", "7", "5", "8", "0", "7">>

RECURSIVE StripZeros(_)
\* drop leading zeros, keeping one digit
StripZeros(ds) ==
    IF Len(ds) > 1 /\ Head(ds) = "0" THEN StripZeros(Tail(ds)) ELSE ds

RECURSIVE DigitsLeq(_, _)
\* a <= b for digit strings of equal length
DigitsLeq(a, b) ==
    IF a = <<>> THEN TRUE
    ELSE IF DigitVal(Head(a)) < DigitVal(Head(b)) THEN TRUE
    ELSE IF DigitVal(Head(a)) > DigitVal(Head(b)) THEN FALSE
    ELSE DigitsLeq(Tail(a), Tail(b))

\* str::parse::<i64> on a digit run: the value as canonical digits, or an
\* error when it exceeds i64::MAX
ParseI64(text) ==
    LET ds == StripZeros(text)
    IN IF Len(ds) < Len(I64Max) \/ (Len(ds) = Len(I64Max) /\ DigitsLeq(ds, I64Max))
       THEN Ok(ds)
       ELSE Err("overflow")

RECURSIVE StripTrailingZeros(_)
StripTrailingZeros(ds) ==
    IF ds # <<>> /\ ds[Len(ds)] = "0" THEN StripTrailingZeros(SubSeq(ds, 1, Len(ds) - 1)) ELSE ds

\* index of the first "." of a text, 0 when there is none
DotIndex(text) ==
    IF \E i \in 1..Len(text) : text[i] = "."
    THEN CHOOSE i \in 1..Len(text) : text[i] = "." /\ \A j \in 1..(i - 1) : text[j] # "."
    ELSE 0

\* str::parse::<f64> on `digits.digits`: the number as integral digits and
\* fractional digits (exact for the short literals of this model)
ParseF64(text) ==
    LET d == DotIndex(text)
    IN [int |-> StripZeros(SubSeq(text, 1, d - 1)),
        frac |-> StripTrailingZeros(SubSeq(text, d + 1, Len(text)))]

RECURSIVE UnescapeFromLenient(_, _, _, _, _)
\* the loop with an escape arm that keeps the character of an escape it does
\* not know
UnescapeFromLenient(raw, span, i, escape, result) ==
    IF i > Len(raw) THEN Ok(result)
    ELSE LET c == raw[i]
         IN IF escape
            THEN UnescapeFromLenient(raw, span, i + 1, FALSE,
                     Append(result, IF c = "n" THEN "\n" ELSE c))
            ELSE IF c = "\\" THEN UnescapeFromLenient(raw, span, i + 1, TRUE, result)
            ELSE UnescapeFromLenient(raw, span, i + 1, FALSE, Append(result, c))

RECURSIVE UnescapeFrom(_, _, _, _, _)
\* the loop of unescape_string: i is the next 1-based index into raw (the
\* byte index of that character is i - 1)
UnescapeFrom(raw, span, i, escape, result) ==
    IF i > Len(raw) THEN Ok(result)
    ELSE LET c == raw[i]
         IN IF escape
            THEN IF c = "n" THEN UnescapeFrom(raw, span, i + 1, FALSE, Append(result, "\n"))
                 ELSE IF c = "\\" THEN UnescapeFrom(raw, span, i + 1, FALSE, Append(result, "\\"))
                 ELSE IF c = "\"" THEN UnescapeFrom(raw, span, i + 1, FALSE, Append(result, "\""))
                 ELSE LET absolute_index == span.start + 1 + (i - 1)
                      IN Err(PrimaryLabel(
                              DiagnosticError(<<"Unknown character escape ", c>>,
                                              SpanNew(absolute_index, absolute_index + 1)),
                              <<"I don't know how to handle this character escape">>))
            ELSE IF c = "\\" THEN UnescapeFrom(raw, span, i + 1, TRUE, result)
            ELSE UnescapeFrom(raw, span, i + 1, FALSE, Append(result, c))

unescape_string(raw, span) == UnescapeFrom(raw, span, 1, FALSE, <<>>)

\* ------------------------------------------------------------------------
\* validator.rs: expressions
\* ------------------------------------------------------------------------
\* IndexMap::get by name on a map kept as a sequence of named records
MapHas(map, name) == \E i \in 1..Len(map) : map[i].name.text = name
MapGet(map, name) == map[CHOOSE i \in 1..Len(map) : map[i].name.text = name]

\* every type pushed, contained already or not
KeepAllTys(tys, acc) == acc \o tys

RECURSIVE DedupTys(_, _)
\* push each type that the accumulator does not contain yet
DedupTys(tys, acc) ==
    IF tys = <<>> THEN acc
    ELSE DedupTys(Tail(tys), IF TyContains(acc, Head(tys)) THEN acc ELSE Append(acc, Head(tys)))

RECURSIVE FlattenTys(_)
\* the members of a Union in place of the Union, one level
FlattenTys(tys) ==
    IF tys = <<>> THEN <<>>
    ELSE (IF Head(tys).t = "Union" THEN Head(tys).m ELSE <<Head(tys)>>) \o FlattenTys(Tail(tys))

make_union_ty(tys) ==
    LET flat == DedupTys(FlattenTys(tys), <<>>)
    IN IF Len(flat) = 0 THEN TyUnknown
       ELSE IF Len(flat) = 1 THEN flat[1]
       ELSE TyUnion(flat)

infer_array_type(elements) ==
    LET unique_types == DedupTys([i \in 1..Len(elements) |-> elements[i].ty], <<>>)
    IN IF Len(unique_types) = 0 THEN TyUnknown
       ELSE IF Len(unique_types) = 1 THEN unique_types[1]
       ELSE make_union_ty(unique_types)

\* a lookup that answers for a missing name with a String const
LookupGlobalLenient(globals, name) ==
    IF MapHas(globals, name) THEN Some(MapGet(globals, name))
    ELSE Some([name |-> [text |-> name, span |-> SpanNew(0, 0)],
               expr |-> [k |-> "NullLiteral", span |-> SpanNew(0, 0), ty |-> TyString]])

\* a lookup that takes every const for a String
LookupGlobalAsString(globals, name) ==
    IF MapHas(globals, name)
    THEN Some([MapGet(globals, name) EXCEPT !.expr.ty = TyString])
    ELSE None

\* self.globals.get(name)
LookupGlobal(globals, name) ==
    IF MapHas(globals, name) THEN Some(MapGet(globals, name)) ELSE None

UnknownIdentifier(span) ==
    PrimaryLabel(DiagnosticError(<<"Unknown identifier">>, span),
                 <<"I don't know what this name is referring to">>)

RECURSIVE validate_expr(_, _)
RECURSIVE ValidateParts(_, _, _, _)
RECURSIVE validate_dictionary_fields(_, _, _, _)
RECURSIVE validate_array_elements(_, _, _, _)
\* Validator::validate_expr with self.globals = globals
validate_expr(expr, globals) ==
    CASE expr.k = "StringLiteral" -> ValidateParts(expr.parts, expr.span, globals, <<>>)
      [] expr.k = "IntegerLiteral" ->
            LET value == ParseI64(expr.text)
            IN IF value.ok
               THEN Ok([k |-> "IntegerLiteral", value |-> value.v, span |-> expr.span,
                        ty |-> TyInteger])
               ELSE Err(DiagnosticError(<<"Invalid integer literal">>, expr.span))
      [] expr.k = "FloatLiteral" ->
            Ok([k |-> "FloatLiteral", value |-> ParseF64(expr.text), span |-> expr.span,
                ty |-> TyFloat])
      [] expr.k = "NullLiteral" ->
            Ok([k |-> "NullLiteral", span |-> expr.span, ty |-> TyNull])
      [] expr.k = "Dictionary" ->
            validate_dictionary_fields(expr.fields, expr.span, globals, <<>>)
      [] expr.k = "Array" ->
            validate_array_elements(expr.elems, expr.span, globals, <<>>)
      [] expr.k = "NameRef" ->
            LET konst == LookupGlobal(globals, expr.name)
            IN IF konst.some
               THEN Ok([k |-> "NameRef", name |-> expr.name, span |-> konst.v.expr.span,
                        ty |-> konst.v.expr.ty])
               ELSE Err(UnknownIdentifier(expr.span))

\* the loop over the parts of a string literal
ValidateParts(parts, span, globals, validated_parts) ==
    IF parts = <<>>
    THEN Ok([k |-> "StringLiteral", parts |-> validated_parts, span |-> span,
             ty |-> TyString])
    ELSE LET part == Head(parts)
         IN IF part.k = "Literal"
            THEN LET Literal(unescaped) ==
                         IF unescaped.ok
                         THEN ValidateParts(Tail(parts), span, globals,
                                  Append(validated_parts, [k |-> "Literal", s |-> unescaped.v]))
                         ELSE unescaped
                 IN Literal(unescape_string(part.raw, span))
            ELSE LET Code(validated_expr) ==
                         IF validated_expr.ok
                         THEN ValidateParts(Tail(parts), span, globals,
                                  Append(validated_parts,
                                         [k |-> "Expr", expr |-> validated_expr.v]))
                         ELSE validated_expr
                 IN Code(validate_expr(part.expr, globals))

validate_dictionary_fields(fields, dictionary_span, globals, validated_fields) ==
    IF fields = <<>>
    THEN Ok([k |-> "Dictionary", fields |-> validated_fields, span |-> dictionary_span,
             ty |-> TyDictionary([i \in 1..Len(validated_fields) |->
                                      validated_fields[i].value.ty])])
    ELSE LET field == Head(fields)
             Value(key, value) ==
                 IF ~value.ok THEN value
                 ELSE validate_dictionary_fields(Tail(fields), dictionary_span, globals,
                          Append(validated_fields, [key |-> key.v, value |-> value.v]))
             Key(key) ==
                 IF ~key.ok THEN key
                 ELSE IF ~TyEq(key.v.ty, TyString)
                 THEN Err(PrimaryLabel(DiagnosticError(<<"Mismatched types">>,
                                                       field.key.span),
                                       <<"I was expecting a string as key here">>))
                 ELSE Value(key, validate_expr(field.value, globals))
         IN Key(validate_expr(field.key, globals))

validate_array_elements(elements, array_span, globals, validated_exprs) ==
    IF elements = <<>>
    THEN Ok([k |-> "Array", elems |-> validated_exprs, span |-> array_span,
             ty |-> TyArray(infer_array_type(validated_exprs))])
    ELSE LET Element(validated_expr) ==
                 IF ~validated_expr.ok THEN validated_expr
                 ELSE validate_array_elements(Tail(elements), array_span, globals,
                          Append(validated_exprs, validated_expr.v))
         IN Element(validate_expr(Head(elements), globals))

\* ------------------------------------------------------------------------
\* validator.rs: entries
\* ------------------------------------------------------------------------
MismatchedUrl(url_span) ==
    PrimaryLabel(DiagnosticError(<<"Mismatched types">>, url_span),
                 <<"I was expecting a string here">>)

MultipleRequests(entry_name, item_span) ==
    PrimaryLabel(DiagnosticError(<<"Entry ", entry_name, " contains multiple requests">>,
                                 item_span),
                 <<"I was expecting to find one request in entry ", entry_name>>)

UnexpectedTypes(body_span) ==
    PrimaryLabel(DiagnosticError(<<"Unexpected types">>, body_span),
                 <<"I was expecting all the values to be strings here">>)

UnexpectedType(body_span) ==
    PrimaryLabel(DiagnosticError(<<"Unexpected type">>, body_span),
                 <<"I was expecting a dictionary here">>)

MultipleSections(entry_name, section, item_span) ==
    PrimaryLabel(DiagnosticError(<<"Entry ", entry_name, " contains multiple ", section,
                                   " sections">>, item_span),
                 <<"I was expecting to find at most one ", section, " section in entry ",
                   entry_name>>)

UnknownSection(name) ==
    PrimaryLabel(DiagnosticError(<<"Unknown section name ", name.text>>, name.span),
                 <<"I don't know what to do with this section here">>)

\* any() in the place of all()
AnyString(value_types) == \E i \in 1..Len(value_types) : TyEq(value_types[i], TyString)

\* value_types.iter().all(|it| *it == Ty::String)
AllString(value_types) == \A i \in 1..Len(value_types) : TyEq(value_types[i], TyString)

\* a URL check that lets scalars through
UrlTypeOkScalar(ty) == ty.t \in {"String", "Integer", "Float"}

\* validated_url.ty != Ty::String, negated
UrlTypeOk(ty) == TyEq(ty, TyString)

\* a second request silently takes the place of the first
SetRequestLast(slots, entry_name, item_span, request) ==
    Ok([slots EXCEPT !.request = Some(request)])

\* match validated_request: a second request is an error
SetRequest(slots, entry_name, item_span, request) ==
    IF slots.request.some THEN Err(MultipleRequests(entry_name, item_span))
    ELSE Ok([slots EXCEPT !.request = Some(request)])

\* a match that ignores the case of the first letter
SectionOfAnyCase(text) ==
    IF text \in {"Headers", "headers"} THEN "Headers"
    ELSE IF text \in {"Body", "body"} THEN "Body"
    ELSE "Unknown"

\* match name.text: the arm a section name selects
SectionOf(text) ==
    IF text = "Headers" THEN "Headers" ELSE IF text = "Body" THEN "Body" ELSE "Unknown"

\* one iteration of the loop of validate_entry: the three slots after the
\* item, or the diagnostic
ValidateEntryItem(item, entry_name, globals, slots) ==
    IF item.k = "Request"
    THEN LET url_span == item.url.span
             Request(validated_url) ==
                 IF ~validated_url.ok THEN validated_url
                 ELSE IF ~UrlTypeOk(validated_url.v.ty) THEN Err(MismatchedUrl(url_span))
                 ELSE SetRequest(slots, entry_name, item.span,
                                 [method |-> item.method, url |-> validated_url.v])
         IN Request(validate_expr(item.url, globals))
    ELSE LET body_span == item.body.span
             Section(validated_expr, section) ==
                 IF ~validated_expr.ok THEN validated_expr
                 ELSE IF section = "Headers"
                 THEN IF validated_expr.v.ty.t = "Dictionary"
                      THEN IF ~AllString(validated_expr.v.ty.m)
                           THEN Err(UnexpectedTypes(body_span))
                           ELSE IF slots.headers.some
                           THEN Err(MultipleSections(entry_name, "[Headers]", item.span))
                           ELSE Ok([slots EXCEPT !.headers = Some(validated_expr.v)])
                      ELSE Err(UnexpectedType(body_span))
                 ELSE IF section = "Body"
                 THEN IF validated_expr.v.ty.t # "Dictionary"
                      THEN Err(UnexpectedType(body_span))
                      ELSE IF slots.body.some
                      THEN Err(MultipleSections(entry_name, "[Body]", item.span))
                      ELSE Ok([slots EXCEPT !.body = Some(validated_expr.v)])
                 ELSE Err(UnknownSection(item.name))
         IN Section(validate_expr(item.body, globals), SectionOf(item.name.text))

RECURSIVE ValidateEntryItems(_, _, _, _)
ValidateEntryItems(body, entry_name, globals, slots) ==
    IF body = <<>> THEN Ok(slots)
    ELSE LET Rest(r) ==
                 IF r.ok THEN ValidateEntryItems(Tail(body), entry_name, globals, r.v) ELSE r
         IN Rest(ValidateEntryItem(Head(body), entry_name, globals, slots))

\* Validator::validate_entry with self.globals = globals
validate_entry(entry, globals) ==
    LET Build(r) ==
            IF r.ok
            THEN Ok([name |-> entry.name, request |-> r.v.request, headers |-> r.v.headers,
                     body |-> r.v.body])
            ELSE r
    IN Build(ValidateEntryItems(entry.body, entry.name.text, globals,
                                [request |-> None, headers |-> None, body |-> None]))

DuplicateEntry(entry_name, first) ==
    DiagnosticLabel(
        PrimaryLabel(DiagnosticError(<<"The entry ", entry_name.text,
                                       " is defined multiple times">>, entry_name.span),
                     <<"I have already seen an entry with this name">>),
        <<"It was first defined here">>, first.name.span)

\* the diagnostic without the label on the first definition
DuplicateConstUnlabelled(name, first) ==
    PrimaryLabel(DiagnosticError(<<"The variable ", name.text,
                                   " is defined multiple times">>, name.span),
                 <<"I have already seen a variable with this name">>)

DuplicateConst(name, first) ==
    DiagnosticLabel(
        PrimaryLabel(DiagnosticError(<<"The variable ", name.text,
                                       " is defined multiple times">>, name.span),
                     <<"I have already seen a variable with this name">>),
        <<"It was first defined here">>, first.name.span)

\* the Entry arm of the loop of Validator::validate: the entries map after
\* the item, or the diagnostic
ValidateItemEntry(item, globals, entries) ==
    LET Insert(validated_entry) ==
            IF ~validated_entry.ok THEN validated_entry
            ELSE IF MapHas(entries, item.name.text)
            THEN Err(DuplicateEntry(item.name, MapGet(entries, item.name.text)))
            ELSE Ok(Append(entries, validated_entry.v))
    IN Insert(validate_entry(item, globals))

\* the Const arm of the loop of Validator::validate: the globals map after
\* the item, or the diagnostic
ValidateItemConst(item, globals) ==
    LET Insert(validated_expr) ==
            IF ~validated_expr.ok THEN validated_expr
            ELSE IF MapHas(globals, item.name.text)
            THEN Err(DuplicateConst(item.name, MapGet(globals, item.name.text)))
            ELSE Ok(Append(globals, [name |-> item.name, expr |-> validated_expr.v]))
    IN Insert(validate_expr(item.expr, globals))

\* ------------------------------------------------------------------------
\* value.rs
\* ------------------------------------------------------------------------
VString(s) == [tag |-> "String", s |-> s]
VInteger(i) == [tag |-> "Integer", i |-> i]
VFloat(f) == [tag |-> "Float", f |-> f]
VNull == [tag |-> "Null"]
VDictionary(d) == [tag |-> "Dictionary", d |-> d]
VArray(a) == [tag |-> "Array", a |-> a]

\* the characters of the model in increasing byte value
AsciiOrder == <<"\n", " ", "\"", ",", "-", ".", "/", "0", "1", "2", "3", "4", "5", "6",
                "7", "8", "9", ":", "[", "\\", "]", "_", "a", "b", "c", "d", "e", "f",
                "g", "h", "i", "j", "k", "l", "m", "n", "o", "p", "q", "r", "s", "t",
                "u", "v", "w", "x", "y", "z", "{", "}">>
CharCode(c) == CHOOSE i \in 1..Len(AsciiOrder) : AsciiOrder[i] = c

RECURSIVE StrLess(_, _)
\* the order of String: lexicographic by byte
StrLess(a, b) ==
    IF b = <<>> THEN FALSE
    ELSE IF a = <<>> THEN TRUE
    ELSE IF CharCode(Head(a)) < CharCode(Head(b)) THEN TRUE
    ELSE IF CharCode(Head(a)) > CharCode(Head(b)) THEN FALSE
    ELSE StrLess(Tail(a), Tail(b))

RECURSIVE SortKeys(_)
\* keys.sort() on the keys of a map (the keys of a map are distinct)
SortKeys(keys) ==
    IF keys = {} THEN <<>>
    ELSE LET least == CHOOSE k \in keys : \A o \in keys \ {k} : StrLess(k, o)
         IN <<least>> \o SortKeys(keys \ {least})

\* the orders in which n entries can come
OrdersOf(n) == {p \in [1..n -> 1..n] : \A i, j \in 1..n : p[i] = p[j] => i = j}

RECURSIVE IterationOrders(_)
\* Value::Dictionary holds a std HashMap, whose iteration order is not
\* specified: the value with the entries of every dictionary in it in each
\* order an iteration can take (the sequence d lists one of them)
IterationOrders(v) ==
    CASE v.tag = "Dictionary" ->
            LET n == Len(v.d)
                Values == UNION {IterationOrders(v.d[i].value) : i \in 1..n}
                Choices == {c \in [1..n -> Values] :
                               \A i \in 1..n : c[i] \in IterationOrders(v.d[i].value)}
            IN {VDictionary([i \in 1..n |-> [key |-> v.d[p[i]].key, value |-> c[p[i]]]]) :
                   p \in OrdersOf(n), c \in Choices}
      [] v.tag = "Array" ->
            LET n == Len(v.a)
                Values == UNION {IterationOrders(v.a[i]) : i \in 1..n}
            IN {VArray(c) : c \in {e \in [1..n -> Values] :
                                      \A i \in 1..n : e[i] \in IterationOrders(v.a[i])}}
      [] OTHER -> {v}

DictKeys(d) == {d[i].key : i \in 1..Len(d)}
DictHas(d, key) == \E i \in 1..Len(d) : d[i].key = key
DictGet(d, key) == d[CHOOSE i \in 1..Len(d) : d[i].key = key].value

\* map.insert(key, value) on the map that eval_expr fills: a present key takes
\* the new value; the sequence lists the entries as they were first inserted
DictInsert(d, key, value) ==
    IF DictHas(d, key)
    THEN [i \in 1..Len(d) |-> IF d[i].key = key THEN [key |-> key, value |-> value] ELSE d[i]]
    ELSE Append(d, [key |-> key, value |-> value])

RECURSIVE Join(_, _)
\* [String]::join
Join(strs, sep) ==
    IF strs = <<>> THEN <<>>
    ELSE IF Len(strs) = 1 THEN strs[1]
    ELSE strs[1] \o sep \o Join(Tail(strs), sep)

\* Display of f64 for the short literals of the model
DisplayF64(f) == IF f.frac = <<>> THEN f.int ELSE f.int \o <<".">> \o f.frac

RECURSIVE DisplayInsertionOrder(_)
\* a Display that lists the keys of a dictionary as the map yields them
DisplayInsertionOrder(v) ==
    CASE v.tag = "String" -> v.s
      [] v.tag = "Integer" -> v.i
      [] v.tag = "Float" -> DisplayF64(v.f)
      [] v.tag = "Null" -> <<"n", "u", "l", "l">>
      [] v.tag = "Dictionary" ->
            <<"{">> \o Join([i \in 1..Len(v.d) |->
                               v.d[i].key \o <<":", " ">>
                               \o DisplayInsertionOrder(v.d[i].value)],
                            <<",", " ">>) \o <<"}">>
      [] v.tag = "Array" ->
            <<"[">> \o Join([i \in 1..Len(v.a) |-> DisplayInsertionOrder(v.a[i])],
                            <<",", " ">>) \o <<"]">>

RECURSIVE Display(_)
\* impl Display for Value, which to_string() uses
Display(v) ==
    CASE v.tag = "String" -> v.s
      [] v.tag = "Integer" -> v.i
      [] v.tag = "Float" -> DisplayF64(v.f)
      [] v.tag = "Null" -> <<"n", "u", "l", "l">>
      [] v.tag = "Dictionary" ->
            LET Inner(keys) ==
                    Join([i \in 1..Len(keys) |->
                             keys[i] \o <<":", " ">> \o Display(DictGet(v.d, keys[i]))],
                         <<",", " ">>)
            IN <<"{">> \o Inner(SortKeys(DictKeys(v.d))) \o <<"}">>
      [] v.tag = "Array" ->
            LET inner == Join([i \in 1..Len(v.a) |-> Display(v.a[i])], <<",", " ">>)
            IN <<"[">> \o inner \o <<"]">>

RECURSIVE StringifyChars(_)
\* the loop of stringify_string
StringifyChars(s) ==
    IF s = <<>> THEN <<>>
    ELSE (CASE Head(s) = "\n" -> <<"\\", "n">>
            [] Head(s) = "\\" -> <<"\\", "\\">>
            [] Head(s) = "\"" -> <<"\\", "\"">>
            [] OTHER -> <<Head(s)>>) \o StringifyChars(Tail(s))

stringify_string(s) == <<"\"">> \o StringifyChars(s) \o <<"\"">>

RECURSIVE stringify(_)
\* Value::stringify
stringify(v) ==
    CASE v.tag = "String" -> stringify_string(v.s)
      [] v.tag = "Integer" -> v.i
      [] v.tag = "Float" -> DisplayF64(v.f)
      [] v.tag = "Null" -> <<"n", "u", "l", "l">>
      [] v.tag = "Dictionary" ->
            LET Inner(keys) ==
                    Join([i \in 1..Len(keys) |->
                             stringify_string(keys[i]) \o <<":", " ">>
                             \o stringify(DictGet(v.d, keys[i]))],
                         <<",", " ">>)
            IN <<"{">> \o Inner(SortKeys(DictKeys(v.d))) \o <<"}">>
      [] v.tag = "Array" ->
            <<"[">> \o Join([i \in 1..Len(v.a) |-> stringify(v.a[i])], <<",", " ">>)
            \o <<"]">>

RECURSIVE JsonEscape(_)
\* the JSON escapes of the characters of the model
JsonEscape(s) ==
    IF s = <<>> THEN <<>>
    ELSE (CASE Head(s) = "\n" -> <<"\\", "n">>
            [] Head(s) = "\\" -> <<"\\", "\\">>
            [] Head(s) = "\"" -> <<"\\", "\"">>
            [] OTHER -> <<Head(s)>>) \o JsonEscape(Tail(s))

JsonString(s) == <<"\"">> \o JsonEscape(s) \o <<"\"">>

RECURSIVE ToJson(_)
\* value.to_json().to_string(): compact JSON text
ToJson(v) ==
    CASE v.tag = "String" -> JsonString(v.s)
      [] v.tag = "Integer" -> v.i
      [] v.tag = "Float" -> IF v.f.frac = <<>> THEN v.f.int \o <<".", "0">>
                            ELSE DisplayF64(v.f)
      [] v.tag = "Null" -> <<"n", "u", "l", "l">>
      [] v.tag = "Dictionary" ->
            <<"{">> \o Join([i \in 1..Len(v.d) |->
                              JsonString(v.d[i].key) \o <<":">> \o ToJson(v.d[i].value)],
                            <<",">>) \o <<"}">>
      [] v.tag = "Array" ->
            <<"[">> \o Join([i \in 1..Len(v.a) |-> ToJson(v.a[i])], <<",">>) \o <<"]">>

\* ------------------------------------------------------------------------
\* machine.rs: evaluation
\* ------------------------------------------------------------------------
\* HashMap::insert on a map kept as a function
NamesInsert(names, name, value) ==
    [n \in (DOMAIN names) \cup {name} |-> IF n = name THEN value ELSE names[n]]

Panic(why) == [ok |-> FALSE, err |-> why]

RECURSIVE eval_expr(_, _)
RECURSIVE EvalParts(_, _, _)
RECURSIVE EvalFields(_, _, _)
RECURSIVE EvalElems(_, _, _)
RECURSIVE EvalPartsStringify(_, _, _)
\* the loop over the parts with stringify in place of to_string
EvalPartsStringify(parts, names, out) ==
    IF parts = <<>> THEN Ok(VString(out))
    ELSE LET part == Head(parts)
         IN IF part.k = "Literal"
            THEN EvalPartsStringify(Tail(parts), names, out \o part.s)
            ELSE LET Code(value) ==
                         IF value.ok
                         THEN EvalPartsStringify(Tail(parts), names,
                                                 out \o stringify(value.v))
                         ELSE value
                 IN Code(eval_expr(part.expr, names))

\* Machine::eval_expr with self.names = names; a failed result is a panic
eval_expr(expr, names) ==
    CASE expr.k = "StringLiteral" -> EvalParts(expr.parts, names, <<>>)
      [] expr.k = "IntegerLiteral" -> Ok(VInteger(expr.value))
      [] expr.k = "FloatLiteral" -> Ok(VFloat(expr.value))
      [] expr.k = "NullLiteral" -> Ok(VNull)
      [] expr.k = "Dictionary" -> EvalFields(expr.fields, names, <<>>)
      [] expr.k = "Array" -> EvalElems(expr.elems, names, <<>>)
      [] expr.k = "NameRef" ->
            IF expr.name \in DOMAIN names THEN Ok(names[expr.name])
            ELSE Panic("no entry found for key")

EvalParts(parts, names, out) ==
    IF parts = <<>> THEN Ok(VString(out))
    ELSE LET part == Head(parts)
         IN IF part.k = "Literal" THEN EvalParts(Tail(parts), names, out \o part.s)
            ELSE LET Code(value) ==
                         IF value.ok THEN EvalParts(Tail(parts), names, out \o Display(value.v))
                         ELSE value
                 IN Code(eval_expr(part.expr, names))

EvalFields(fields, names, map) ==
    IF fields = <<>> THEN Ok(VDictionary(map))
    ELSE LET Value(key, value) ==
                 IF ~value.ok THEN value
                 ELSE EvalFields(Tail(fields), names, DictInsert(map, key.v.s, value.v))
             Key(key) ==
                 IF ~key.ok THEN key
                 ELSE IF key.v.tag # "String" THEN Panic("Expected a string")
                 ELSE Value(key, eval_expr(Head(fields).value, names))
         IN Key(eval_expr(Head(fields).key, names))

EvalElems(elems, names, values) ==
    IF elems = <<>> THEN Ok(VArray(values))
    ELSE LET Element(value) ==
                 IF value.ok THEN EvalElems(Tail(elems), names, Append(values, value.v))
                 ELSE value
         IN Element(eval_expr(Head(elems), names))

\* the first loop of Machine::execute: every external variable as a String
BindExternal(external_vars) ==
    [n \in DOMAIN external_vars |-> VString(external_vars[n])]

RECURSIVE BindGlobalsKeepFirst(_, _)
\* the second loop with an insert that keeps a binding already present
BindGlobalsKeepFirst(globals, names) ==
    IF globals = <<>> THEN Ok(names)
    ELSE LET Insert(value) ==
                 IF value.ok
                 THEN BindGlobalsKeepFirst(
                          Tail(globals),
                          IF Head(globals).name.text \in DOMAIN names THEN names
                          ELSE NamesInsert(names, Head(globals).name.text, value.v))
                 ELSE value
         IN Insert(eval_expr(Head(globals).expr, names))

RECURSIVE BindGlobalsExternalOnly(_, _)
\* a second loop that inserts nothing
BindGlobalsExternalOnly(globals, names) == Ok(names)

RECURSIVE BindGlobals(_, _)
\* the second loop of Machine::execute: each const evaluated and inserted in
\* declaration order
BindGlobals(globals, names) ==
    IF globals = <<>> THEN Ok(names)
    ELSE LET Insert(value) ==
                 IF value.ok
                 THEN BindGlobals(Tail(globals),
                                  NamesInsert(names, Head(globals).name.text, value.v))
                 ELSE value
         IN Insert(eval_expr(Head(globals).expr, names))

\* Machine::map_headers: a dictionary value as header pairs; every value
\* must be a String
map_headers(dictionary) ==
    IF \A i \in 1..Len(dictionary) : dictionary[i].value.tag = "String"
    THEN Ok([i \in 1..Len(dictionary) |-> <<dictionary[i].key, dictionary[i].value.s>>])
    ELSE Panic("Expected a string")

\* Machine::execute_entry up to the call of the transport, from the values
\* of the URL, the Headers and the Body as the iterations visit them
BuildRequestOf(entry, url, headers, body) ==
    LET Mapped(value) ==
            IF ~value.ok THEN value
            ELSE IF value.v.tag # "Dictionary" THEN Panic("Expected a dictionary")
            ELSE map_headers(value.v.d)
        Build(mapped) ==
            IF ~url.ok THEN url
            ELSE IF url.v.tag # "String" THEN Panic("Expected a string")
            ELSE IF ~mapped.ok THEN mapped
            ELSE IF ~body.ok THEN body
            ELSE Ok([method |-> entry.request.v.method, url |-> url.v.s,
                     headers |-> mapped.v,
                     body |-> IF entry.body.some THEN Some(ToJson(body.v)) ELSE None])
    IN Build(Mapped(headers))

\* the requests that can be built for an entry: one for each order in which
\* map_headers and to_json can visit the dictionaries
BuildRequests(entry, names) ==
    LET Orders(value) == IF value.ok THEN {Ok(v) : v \in IterationOrders(value.v)}
                         ELSE {value}
        Requests(url, headers, body) ==
            {BuildRequestOf(entry, url, h, b) : h \in Orders(headers), b \in Orders(body)}
    IN Requests(eval_expr(entry.request.v.url, names),
                IF entry.headers.some THEN eval_expr(entry.headers.v, names)
                ELSE Ok(VDictionary(<<>>)),
                IF entry.body.some THEN eval_expr(entry.body.v, names) ELSE Ok(VNull))

\* ------------------------------------------------------------------------
\* The transport collaborator (reqwest): what a call can do
\* ------------------------------------------------------------------------
Responses == {[status |-> 200, headers |-> <<>>, body |-> <<>>],
              [status |-> 404, headers |-> <<>>, body |-> <<>>]}

\* send() fails, or reading the response body fails
TransportFailures == {"send", "bytes"}

\* Machine::execute_entry: the ways the call can end.  "skip" is Ok(None),
\* "response" is Ok(Some(response)) after one call of the transport, and
\* "panic" is an unwrap that fails, before the call (call = FALSE) or on
\* its failure (call = TRUE)
RequestOutcomes(entry, names) ==
    LET Call(request) ==
            IF ~request.ok THEN {[kind |-> "panic", call |-> FALSE]}
            ELSE {[kind |-> "response", call |-> TRUE, request |-> request.v,
                   response |-> r] : r \in Responses}
                 \cup {[kind |-> "panic", call |-> TRUE, request |-> request.v,
                        failure |-> f] : f \in TransportFailures}
    IN UNION {Call(request) : request \in BuildRequests(entry, names)}

\* an entry without a request treated as a failure
execute_entry_strict(entry, names) ==
    IF ~entry.request.some THEN {[kind |-> "panic", call |-> FALSE]}
    ELSE RequestOutcomes(entry, names)

execute_entry(entry, names) ==
    IF ~entry.request.some THEN {[kind |-> "skip"]}
    ELSE RequestOutcomes(entry, names)

\* an execute_entry that remembers the entry it ran under its name
NamesAfterEntryCached(names, entry) ==
    NamesInsert(names, entry.name.text, VString(<<"u">>))

\* Machine.names after execute_entry, which borrows the machine immutably
\* (&self), as eval_expr and map_headers do: the names before it
NamesAfterEntry(names, entry) == names

\* a lookup that ignores the name and takes the first entry
SelectEntryFirst(entries, name) ==
    IF entries # <<>> THEN Some(entries[1]) ELSE None

\* source_file.entries.get(name)
SelectEntry(entries, name) ==
    IF MapHas(entries, name) THEN Some(MapGet(entries, name)) ELSE None

\* a push at the front of the list
PushResponseFront(responses, response) == <<response>> \o responses

\* responses.push(response)
PushResponse(responses, response) == Append(responses, response)

\* the log of the transport after the call, if any, of an outcome
Sent(log, entry, o) ==
    IF o.kind = "skip" \/ ~o.call THEN log
    ELSE Append(log, [entry |-> entry.name.text, request |-> o.request,
                      response |-> IF o.kind = "response" THEN Some(o.response) ELSE None])

\* ------------------------------------------------------------------------
\* Inputs
\* ------------------------------------------------------------------------
sStr == ShStr(<<ShLit(<<"u">>)>>)
sInt == ShInt(<<"1">>)
sFloat == ShFloat(<<"1", ".", "5">>)
sNull == ShNull
sRefA == ShRef("a")
sRefB == ShRef("b")
sTplA == ShStr(<<ShLit(<<"u">>), ShCode(sRefA)>>)
sTplB == ShStr(<<ShCode(sRefB), ShLit(<<"/">>)>>)
sKey == ShStr(<<ShLit(<<"k">>)>>)
sKeyJ == ShStr(<<ShLit(<<"j">>)>>)
sVal == ShStr(<<ShLit(<<"v">>)>>)
sDictE == ShDict(<<>>)
sDictS == ShDict(<<ShField(sKey, sVal)>>)
sDictI == ShDict(<<ShField(sKey, sInt)>>)
sDictMixed == ShDict(<<ShField(sKey, sVal), ShField(sKeyJ, sInt)>>)
sDictRefB == ShDict(<<ShField(sKey, sRefB)>>)
sArrE == ShArr(<<>>)

ConstNames == {"a", "b"}
EntryNames == {"e", "f"}
Methods == {"GET", "POST", "PUT", "PATCH", "DELETE"}

\* the declaration family: short files of consts and small entries
DeclConstExprs == {sStr, sInt, sRefA, sRefB, sTplA, sDictRefB}
DeclBodies == {<<>>, <<ShRequest("GET", sStr)>>, <<ShRequest("POST", sRefA)>>,
               <<ShRequest("GET", sTplB)>>, <<ShSection("Headers", sDictS)>>}
DeclItems == {ShConst(n, e) : n \in ConstNames, e \in DeclConstExprs}
             \cup {ShEntry(n, b) : n \in EntryNames, b \in DeclBodies}
DeclFiles == SeqsUpTo(DeclItems, MaxItems)

\* the entry family: one entry after at most one const
Urls == {sStr, sRefA, sTplA, sInt, sFloat, sNull, sDictE, sArrE}
EntryItemShapes ==
    {ShRequest("GET", u) : u \in Urls}
    \cup {ShRequest(m, sStr) : m \in Methods}
    \cup {ShSection("Headers", e) : e \in {sDictE, sDictS, sDictI, sDictMixed, sInt, sRefA}}
    \cup {ShSection("Body", e) : e \in {sDictE, sDictI, sInt, sRefA}}
    \cup {ShSection("headers", sDictS), ShSection("body", sRefB), ShSection("Query", sDictE)}
EntryPrefixes == {<<>>, <<ShConst("a", sStr)>>, <<ShConst("a", sInt)>>,
                  <<ShConst("a", sDictS)>>}
EntryFiles == {p \o <<ShEntry("e", b)>> :
                  p \in EntryPrefixes, b \in SeqsUpTo(EntryItemShapes, MaxBody)}

\* the source files of the model, as the parser delivers them
Files == {LayItems(shs, 0) : shs \in DeclFiles \cup EntryFiles}

\* the --entry argument and the --var arguments
EntryFilters == {None, Some("e"), Some("f"), Some("g")}
NoVars == [n \in {} |-> <<>>]
ExternalVarSets == {NoVars, [n \in {"a"} |-> <<"x">>], [n \in {"c"} |-> <<"y">>]}

\* ------------------------------------------------------------------------
\* token.rs
\* ------------------------------------------------------------------------
KIdentifier(text) == [t |-> "Identifier", text |-> text]
KHttpMethod(method) == [t |-> "HttpMethod", method |-> method]
KKeyword(keyword) == [t |-> "Keyword", keyword |-> keyword]
KFloat(text) == [t |-> "Float", text |-> text]
KInteger(text) == [t |-> "Integer", text |-> text]
KString(parts) == [t |-> "String", parts |-> parts]
KColon == [t |-> "Colon"]
KComma == [t |-> "Comma"]
KEq == [t |-> "Eq"]
KDelim(delim) == [t |-> "Delim", delim |-> delim]

PartLiteral(text) == [k |-> "Literal", raw |-> text]
PartCode(tokens) == [k |-> "Code", tokens |-> tokens]

\* a Token whose span ends at its last character
TokenEndAtLast(kind, span, skipped_newline) ==
    [kind |-> kind, span |-> SpanNew(span.start, span.end - 1),
     skipped_newline |-> skipped_newline]

Token(kind, span, skipped_newline) ==
    [kind |-> kind, span |-> span, skipped_newline |-> skipped_newline]

\* ------------------------------------------------------------------------
\* lexer.rs.  The input is a sequence of one-byte characters; a position is
\* a byte offset, so input[pos + 1] is the character at pos
\* ------------------------------------------------------------------------
Letters == {"a", "b", "c", "d", "e", "f", "g", "h", "i", "j", "k", "l", "m", "n", "o",
            "p", "q", "r", "s", "t", "u", "v", "w", "x", "y", "z",
            "A", "B", "C", "D", "E", "F", "G", "H", "I", "J", "K", "L", "M", "N", "O",
            "P", "Q", "R", "S", "T", "U", "V", "W", "X", "Y", "Z"}
IsAlphabetic(c) == c \in Letters
IsAlphanumeric(c) == IsAlphabetic(c) \/ IsDigit(c)
IsWhitespace(c) == c \in {" ", "\n", "\t", "\r"}

\* &self.input[a..b]
Slice(input, a, b) == SubSeq(input, a + 1, b)

\* the one result of a call, computed once
The(results) == CHOOSE r \in results : TRUE

first(input, pos) == IF pos < Len(input) THEN Some(input[pos + 1]) ELSE None
second(input, pos) == IF pos + 1 < Len(input) THEN Some(input[pos + 2]) ELSE None
\* the position after bump()
bump(input, pos) == IF pos < Len(input) THEN pos + 1 ELSE pos

RECURSIVE SkipWhitespaceLast(_, _, _)
\* a loop in which the last character skipped decides
SkipWhitespaceLast(input, pos, skipped_newline) ==
    IF first(input, pos).some /\ IsWhitespace(first(input, pos).v)
    THEN SkipWhitespaceLast(input, pos + 1, first(input, pos).v = "\n")
    ELSE [pos |-> pos, skipped_newline |-> skipped_newline]

RECURSIVE SkipWhitespace(_, _, _)
\* the loop of skip_whitespace: the position reached and whether a line
\* feed was crossed
SkipWhitespace(input, pos, skipped_newline) ==
    IF first(input, pos).some /\ IsWhitespace(first(input, pos).v)
    THEN SkipWhitespace(input, pos + 1, skipped_newline \/ first(input, pos).v = "\n")
    ELSE [pos |-> pos, skipped_newline |-> skipped_newline]

skip_whitespace(input, pos) == SkipWhitespace(input, pos, FALSE)

RECURSIVE skip_comment(_, _)
skip_comment(input, pos) ==
    IF first(input, pos).some /\ first(input, pos).v # "\n"
    THEN skip_comment(input, pos + 1)
    ELSE pos

RECURSIVE eat_digits(_, _)
eat_digits(input, pos) ==
    IF first(input, pos).some /\ IsDigit(first(input, pos).v)
    THEN eat_digits(input, pos + 1)
    ELSE pos

\* Lexer::number, entered after the first digit: the kind and the position
number(input, start, pos) ==
    LET Fraction(end) == [kind |-> KFloat(Slice(input, start, end)), pos |-> end]
        Integral(end) ==
            IF first(input, end) = Some(".")
            THEN Fraction(eat_digits(input, end + 1))
            ELSE [kind |-> KInteger(Slice(input, start, end)), pos |-> end]
    IN Integral(eat_digits(input, pos))

\* the match of Lexer::identifier on the text of the lexeme
IdentifierKind(text) ==
    CASE text = <<"e", "n", "t", "r", "y">> -> KKeyword("Entry")
      [] text = <<"c", "o", "n", "s", "t">> -> KKeyword("Const")
      [] text = <<"n", "u", "l", "l">> -> KKeyword("Null")
      [] text = <<"G", "E", "T">> -> KHttpMethod("GET")
      [] text = <<"P", "O", "S", "T">> -> KHttpMethod("POST")
      [] text = <<"P", "U", "T">> -> KHttpMethod("PUT")
      [] OTHER -> KIdentifier(text)

RECURSIVE EatIdentifier(_, _)
EatIdentifier(input, pos) ==
    IF first(input, pos).some
       /\ (IsAlphanumeric(first(input, pos).v) \/ first(input, pos).v = "_")
    THEN EatIdentifier(input, pos + 1)
    ELSE pos

\* Lexer::identifier, entered after the first character
identifier(input, start, pos) ==
    LET Lexeme(end) == [kind |-> IdentifierKind(Slice(input, start, end)), pos |-> end]
    IN Lexeme(EatIdentifier(input, pos))

UnrecognizedCharacter(start) ==
    PrimaryLabel(DiagnosticError(<<"Unrecognized character">>, SpanNew(start, start)),
                 <<"I don't know what to do with this character">>)

UnterminatedTemplate(pos) ==
    PrimaryLabel(DiagnosticError(<<"Unterminated template">>, SpanNew(pos, pos)),
                 <<"I was expecting ", "}}", " here">>)

UnterminatedString(start, pos) ==
    PrimaryLabel(DiagnosticError(<<"Unterminated string literal">>, SpanNew(start, pos)),
                 <<"I never found the closing quote for this string">>)

\* the literal chunk that ends before the character just consumed, if any
PushChunk(input, parts, chunk_start, pos) ==
    IF chunk_start < pos - 1
    THEN Append(parts, PartLiteral(Slice(input, chunk_start, pos - 1)))
    ELSE parts

RECURSIVE next_token(_, _)
RECURSIVE StringLoop(_, _, _, _, _)
RECURSIVE TemplateLoop(_, _, _, _, _)
\* Lexer::next_token from position pos: Ok with the token, or none at the
\* end of the input, and the position reached; or the diagnostic
next_token(input, pos) ==
    LET Lex(start, skipped_newline) ==
            LET c == input[start + 1]
                Simple(kind) ==
                    [ok |-> TRUE, pos |-> start + 1,
                     v |-> Some(Token(kind, SpanNew(start, start + 1), skipped_newline))]
                Scanned(r) ==
                    [ok |-> TRUE, pos |-> r.pos,
                     v |-> Some(Token(r.kind, SpanNew(start, r.pos), skipped_newline))]
                String(r) == IF r.ok THEN Scanned(r.v) ELSE r
            IN CASE c = ":" -> Simple(KColon)
                 [] c = "," -> Simple(KComma)
                 [] c = "=" -> Simple(KEq)
                 [] c = "{" -> Simple(KDelim("OpenBrace"))
                 [] c = "[" -> Simple(KDelim("OpenBrack"))
                 [] c = "}" -> Simple(KDelim("CloseBrace"))
                 [] c = "]" -> Simple(KDelim("CloseBrack"))
                 [] c = "\"" -> String(StringLoop(input, start, start + 1, start + 1, <<>>))
                 [] IsDigit(c) -> Scanned(number(input, start, start + 1))
                 [] IsAlphabetic(c) \/ c = "_" -> Scanned(identifier(input, start, start + 1))
                 [] OTHER -> Err(UnrecognizedCharacter(start))
        Skipped(ws) ==
            IF first(input, ws.pos) = Some("#")
            THEN next_token(input, skip_comment(input, ws.pos))
            ELSE IF ~first(input, ws.pos).some
            THEN [ok |-> TRUE, pos |-> ws.pos, v |-> None]
            ELSE Lex(ws.pos, ws.skipped_newline)
    IN The({Skipped(r) : r \in {skip_whitespace(input, pos)}})

\* the `while let Some(ch) = self.next()` loop of Lexer::string
StringLoop(input, start, pos, chunk_start, parts) ==
    IF ~first(input, pos).some THEN Err(UnterminatedString(start, pos))
    ELSE LET ch == input[pos + 1]
         IN CASE ch = "\"" ->
                    Ok([kind |-> KString(PushChunk(input, parts, chunk_start, pos + 1)),
                        pos |-> pos + 1])
              [] ch = "{" /\ first(input, pos + 1) = Some("{") ->
                    TemplateLoop(input, start, pos + 2,
                                 PushChunk(input, parts, chunk_start, pos + 1), <<>>)
              [] ch = "\\" -> StringLoop(input, start, bump(input, pos + 1), chunk_start, parts)
              [] OTHER -> StringLoop(input, start, pos + 1, chunk_start, parts)

\* the inner loop of Lexer::string that collects the tokens of a template
TemplateLoop(input, start, pos, parts, tokens) ==
    IF first(input, pos) \in {None, Some("\"")} THEN Err(UnterminatedTemplate(pos))
    ELSE IF first(input, pos) = Some("}") /\ second(input, pos) = Some("}")
    THEN StringLoop(input, start, pos + 2, pos + 2, Append(parts, PartCode(tokens)))
    ELSE LET Pushed(r) ==
                 IF ~r.ok THEN r
                 ELSE IF ~r.v.some THEN Err(UnterminatedTemplate(r.pos))
                 ELSE TemplateLoop(input, start, r.pos, parts, Append(tokens, r.v.v))
         IN The({Pushed(r) : r \in {next_token(input, pos)}})

\* ------------------------------------------------------------------------
\* parser.rs.  Each operator takes Parser.tokens and Parser.pos and returns
\* the value with the position reached, or the diagnostic
\* ------------------------------------------------------------------------
POk(v, pos) == [ok |-> TRUE, v |-> v, pos |-> pos]

peek(tokens, pos) == IF pos < Len(tokens) THEN Some(tokens[pos + 1]) ELSE None

\* the kind of the token peek() returns, a kind of no token when it returns
\* none
PeekKind(tokens, pos) == IF pos < Len(tokens) THEN tokens[pos + 1].kind ELSE [t |-> "None"]

peek_span(tokens, pos) ==
    IF pos < Len(tokens) THEN tokens[pos + 1].span
    ELSE IF tokens # <<>> THEN tokens[Len(tokens)].span
    ELSE SpanNew(0, 0)

\* Display of Delim and Delim::is_open
DelimText(delim) ==
    CASE delim = "OpenBrace" -> "{"
      [] delim = "OpenBrack" -> "["
      [] delim = "CloseBrace" -> "}"
      [] delim = "CloseBrack" -> "]"
DelimIsOpen(delim) == delim \in {"OpenBrace", "OpenBrack"}

Expected(message, label, span) ==
    PrimaryLabel(DiagnosticError(<<message>>, span), <<label>>)

expect_delim(tokens, pos, delim) ==
    IF PeekKind(tokens, pos) = KDelim(delim) THEN POk(tokens[pos + 1].span, pos + 1)
    ELSE Err(PrimaryLabel(
                 DiagnosticError(<<"Expected delimiter">>, peek_span(tokens, pos)),
                 <<IF DelimIsOpen(delim) THEN "I was expecting an opening delimiter "
                   ELSE "I was expecting a closing delimiter ",
                   DelimText(delim), " here">>))

expect_newline(tokens, pos) ==
    IF ~peek(tokens, pos).some THEN POk(TRUE, pos)
    ELSE IF tokens[pos + 1].skipped_newline THEN POk(TRUE, pos)
    ELSE Err(Expected("Missing newline", "I was expecting a newline here",
                      tokens[pos + 1].span))

parse_name(tokens, pos) ==
    IF PeekKind(tokens, pos).t = "Identifier"
    THEN Some([text |-> tokens[pos + 1].kind.text, span |-> tokens[pos + 1].span])
    ELSE None

UnexpectedToken(tokens, pos, label) == Expected("Unexpected token", label, peek_span(tokens, pos))

RECURSIVE parse_expr(_, _)
RECURSIVE opt_parse_expr(_, _)
RECURSIVE ParseParts(_, _)
RECURSIVE ParseElements(_, _, _)
RECURSIVE parse_dictionary_fields(_, _, _)
RECURSIVE parse_dictionary_field(_, _)
parse_expr(tokens, pos) ==
    LET Required(r) ==
            IF ~r.ok THEN r
            ELSE IF r.v.some THEN POk(r.v.v, r.pos)
            ELSE Err(Expected("Expected expression", "I was expecting an expression here",
                              peek_span(tokens, pos)))
    IN The({Required(r) : r \in {opt_parse_expr(tokens, pos)}})

opt_parse_expr(tokens, pos) ==
    LET kind == PeekKind(tokens, pos)
        Leaf(expr) == POk(Some(expr), pos + 1)
        StringLiteral(parts) ==
            IF ~parts.ok THEN parts
            ELSE Leaf([k |-> "StringLiteral", span |-> tokens[pos + 1].span,
                       parts |-> parts.v])
        Closed(inner, close, k) ==
            IF ~close.ok THEN close
            ELSE POk(Some(IF k = "Dictionary"
                          THEN [k |-> k, span |-> SpanTo(tokens[pos + 1].span, close.v),
                                fields |-> inner.v]
                          ELSE [k |-> k, span |-> SpanTo(tokens[pos + 1].span, close.v),
                                elems |-> inner.v]),
                     close.pos)
        Dictionary(fields) ==
            IF ~fields.ok THEN fields
            ELSE Closed(fields, expect_delim(tokens, fields.pos, "CloseBrace"), "Dictionary")
        Array(elements) ==
            IF ~elements.ok THEN elements
            ELSE Closed(elements, expect_delim(tokens, elements.pos, "CloseBrack"), "Array")
    IN CASE kind.t = "Identifier" ->
                Leaf([k |-> "NameRef", span |-> tokens[pos + 1].span, name |-> kind.text])
         [] kind.t = "String" -> StringLiteral(ParseParts(kind.parts, <<>>))
         [] kind.t = "Integer" ->
                Leaf([k |-> "IntegerLiteral", span |-> tokens[pos + 1].span,
                      text |-> kind.text])
         [] kind.t = "Float" ->
                Leaf([k |-> "FloatLiteral", span |-> tokens[pos + 1].span,
                      text |-> kind.text])
         [] kind = KKeyword("Null") ->
                Leaf([k |-> "NullLiteral", span |-> tokens[pos + 1].span])
         [] kind = KDelim("OpenBrace") ->
                The({Dictionary(r) : r \in {parse_dictionary_fields(tokens, pos + 1, <<>>)}})
         [] kind = KDelim("OpenBrack") ->
                The({Array(r) : r \in {ParseElements(tokens, pos + 1, <<>>)}})
         [] OTHER -> POk(None, pos)

\* the loop over the parts of a String token: a fresh parser over the tokens
\* of each Code part, which parses one expression and is dropped
ParseParts(parts, ast_parts) ==
    IF parts = <<>> THEN Ok(ast_parts)
    ELSE IF Head(parts).k = "Literal"
    THEN ParseParts(Tail(parts), Append(ast_parts, [k |-> "Literal", raw |-> Head(parts).raw]))
    ELSE LET Code(expr) ==
                 IF ~expr.ok THEN expr
                 ELSE ParseParts(Tail(parts), Append(ast_parts, [k |-> "Expr", expr |-> expr.v]))
         IN The({Code(r) : r \in {parse_expr(Head(parts).tokens, 0)}})

\* the loop of the array arm of opt_parse_expr
ParseElements(tokens, pos, elements) ==
    IF PeekKind(tokens, pos) \in {KDelim("CloseBrack"), [t |-> "None"]}
    THEN POk(elements, pos)
    ELSE LET Element(element) ==
                 IF ~element.ok THEN element
                 ELSE IF PeekKind(tokens, element.pos) = KComma
                 THEN ParseElements(tokens, element.pos + 1, Append(elements, element.v))
                 ELSE IF PeekKind(tokens, element.pos)
                            \in {KDelim("CloseBrack"), [t |-> "None"]}
                 THEN POk(Append(elements, element.v), element.pos)
                 ELSE Err(UnexpectedToken(tokens, element.pos,
                                          "I was expecting a comma here"))
         IN The({Element(r) : r \in {parse_expr(tokens, pos)}})

parse_dictionary_fields(tokens, pos, fields) ==
    IF PeekKind(tokens, pos) \in {KDelim("CloseBrace"), [t |-> "None"]}
    THEN POk(fields, pos)
    ELSE LET Field(field) ==
                 IF ~field.ok THEN field
                 ELSE IF PeekKind(tokens, field.pos) = KComma
                 THEN parse_dictionary_fields(tokens, field.pos + 1, Append(fields, field.v))
                 ELSE IF PeekKind(tokens, field.pos)
                            \in {KDelim("CloseBrace"), [t |-> "None"]}
                 THEN POk(Append(fields, field.v), field.pos)
                 ELSE Err(UnexpectedToken(tokens, field.pos, "I was expecting a comma here"))
         IN The({Field(r) : r \in {parse_dictionary_field(tokens, pos)}})

parse_dictionary_field(tokens, pos) ==
    LET Value(key, value) ==
            IF ~value.ok THEN value
            ELSE POk([key |-> key.v, value |-> value.v], value.pos)
        Key(key) ==
            IF ~key.ok THEN key
            ELSE IF PeekKind(tokens, key.pos) # KColon
            THEN Err(UnexpectedToken(tokens, key.pos, "I was expecting a colon here"))
            ELSE The({Value(key, r) : r \in {parse_expr(tokens, key.pos + 1)}})
    IN The({Key(r) : r \in {parse_expr(tokens, pos)}})

\* the request arms of opt_parse_entry_item: the GET arm calls
\* expect_newline after the URL, the POST, PUT, PATCH and DELETE arms do not
RequestItem(tokens, pos, method) ==
    LET Item(url) ==
            POk(Some([k |-> "Request", method |-> method, url |-> url.v,
                      span |-> SpanTo(tokens[pos + 1].span, url.v.span)]),
                url.pos)
        Newline(url, newline) == IF ~newline.ok THEN newline ELSE Item(url)
        Url(url) ==
            IF ~url.ok THEN url
            ELSE IF method = "GET" THEN Newline(url, expect_newline(tokens, url.pos))
            ELSE Item(url)
    IN The({Url(r) : r \in {parse_expr(tokens, pos + 1)}})

\* the section arm of opt_parse_entry_item
SectionItem(tokens, pos) ==
    LET Item(name, body) ==
            IF ~body.ok THEN body
            ELSE POk(Some([k |-> "Section", name |-> name, body |-> body.v,
                           span |-> SpanTo(tokens[pos + 1].span, body.v.span)]),
                     body.pos)
        Close(name, close) ==
            IF ~close.ok THEN close
            ELSE The({Item(name, r) : r \in {parse_expr(tokens, close.pos)}})
        Name(name) ==
            IF ~name.some
            THEN Err(Expected("Expected identifier", "I was expecting a section name here",
                              peek_span(tokens, pos + 1)))
            ELSE Close(name.v, expect_delim(tokens, pos + 2, "CloseBrack"))
    IN Name(parse_name(tokens, pos + 1))

opt_parse_entry_item(tokens, pos) ==
    LET kind == PeekKind(tokens, pos)
    IN CASE kind.t = "HttpMethod"
              /\ kind.method \in {"GET", "POST", "PUT", "PATCH", "DELETE"} ->
                RequestItem(tokens, pos, kind.method)
         [] kind = KDelim("OpenBrack") -> SectionItem(tokens, pos)
         [] OTHER -> POk(None, pos)

RECURSIVE ParseEntryItems(_, _, _)
\* the `while let Some(item) = self.opt_parse_entry_item()?` loop
ParseEntryItems(tokens, pos, entry_items) ==
    LET Item(item) ==
            IF ~item.ok THEN item
            ELSE IF ~item.v.some THEN POk(entry_items, item.pos)
            ELSE ParseEntryItems(tokens, item.pos, Append(entry_items, item.v.v))
    IN The({Item(r) : r \in {opt_parse_entry_item(tokens, pos)}})

\* Parser::parse_entry, entered after the keyword
parse_entry(tokens, pos, entry_span) ==
    LET Close(name, body, close) ==
            IF ~close.ok THEN close
            ELSE POk([k |-> "Entry", name |-> name, body |-> body.v,
                      span |-> SpanTo(entry_span, close.v)],
                     close.pos)
        Body(name, body) ==
            IF ~body.ok THEN body
            ELSE Close(name, body, expect_delim(tokens, body.pos, "CloseBrace"))
        Open(name, open) ==
            IF ~open.ok THEN open ELSE Body(name, ParseEntryItems(tokens, open.pos, <<>>))
        Name(name) ==
            IF ~name.some
            THEN Err(Expected("Expected identifier", "I was expecting a name here",
                              peek_span(tokens, pos)))
            ELSE Open(name.v, expect_delim(tokens, pos + 1, "OpenBrace"))
    IN Name(parse_name(tokens, pos))

\* Parser::parse_const, entered after the keyword
parse_const(tokens, pos, const_span) ==
    LET Newline(name, expr, newline) ==
            IF ~newline.ok THEN newline
            ELSE POk([k |-> "Const", name |-> name, expr |-> expr.v,
                      span |-> SpanTo(const_span, expr.v.span)],
                     expr.pos)
        Expr(name, expr) ==
            IF ~expr.ok THEN expr
            ELSE Newline(name, expr, expect_newline(tokens, expr.pos))
        Name(name) ==
            IF ~name.some
            THEN Err(Expected("Expected identifier", "I was expecting a variable name here",
                              peek_span(tokens, pos)))
            ELSE IF PeekKind(tokens, pos + 1) # KEq
            THEN Err(DiagnosticError(<<"Expected ", "=">>, peek_span(tokens, pos + 1)))
            ELSE The({Expr(name.v, r) : r \in {parse_expr(tokens, pos + 2)}})
    IN Name(parse_name(tokens, pos))

\* an item parsed without moving the parser
parse_item_peek(tokens, pos) ==
    LET Stay(r) == IF r.ok THEN POk(r.v, pos) ELSE r
    IN IF PeekKind(tokens, pos) = KKeyword("Entry")
       THEN Stay(parse_entry(tokens, pos + 1, tokens[pos + 1].span))
       ELSE IF PeekKind(tokens, pos) = KKeyword("Const")
       THEN Stay(parse_const(tokens, pos + 1, tokens[pos + 1].span))
       ELSE Err(Expected("Expected item", "I was expecting an item here",
                         peek_span(tokens, pos)))

parse_item(tokens, pos) ==
    IF PeekKind(tokens, pos) = KKeyword("Entry")
    THEN parse_entry(tokens, pos + 1, tokens[pos + 1].span)
    ELSE IF PeekKind(tokens, pos) = KKeyword("Const")
    THEN parse_const(tokens, pos + 1, tokens[pos + 1].span)
    ELSE Err(Expected("Expected item", "I was expecting an item here",
                      peek_span(tokens, pos)))

\* ------------------------------------------------------------------------
\* State
\* ------------------------------------------------------------------------
VARIABLES
    file,           \* the items of the source file (ast::SourceFile)
    pos,            \* number of items the loop of Validator::validate has consumed
    globals,        \* Validator.globals, then SourceFile.globals
    entries,        \* Validator.entries, then SourceFile.entries
    pc,             \* "validate", "execute", "filter", "loop", "done", "panic"
    entry_name,     \* the entry_name argument of execute
    external_vars,  \* the external_vars argument of execute
    names,          \* Machine.names
    responses,      \* the local `responses` of Machine::execute
    cur,            \* number of entries the loop of Machine::execute has consumed
    sent,           \* the calls the transport has received, with their answers
    result,         \* the value machine::execute returned, once it has
    input,          \* Lexer.input: the text given to parser::parse
    lexer_pos,      \* Lexer.pos
    tokens,         \* the local `tokens` of Lexer::lex, then Parser.tokens
    parser_pos,     \* Parser.pos
    items,          \* the local `items` of Parser::parse
    arg,            \* the argument of a function applied on its own
    out             \* what the function returned, once it has

\* the state of the front end and the state of a function applied on its own
front == <<input, lexer_pos, tokens, parser_pos, items>>
pure == <<arg, out>>

\* the state of validation and execution
machine == <<file, pos, globals, entries, entry_name, external_vars, names, responses,
             cur, sent>>

vars == <<file, pos, globals, entries, pc, entry_name, external_vars, names, responses,
          cur, sent, result, front, pure>>

NoNames == [n \in {} |-> VNull]

Init ==
    /\ file \in Files
    /\ pos = 0
    /\ globals = <<>>
    /\ entries = <<>>
    /\ pc = "validate"
    /\ entry_name = None
    /\ external_vars = NoVars
    /\ names = NoNames
    /\ responses = <<>>
    /\ cur = 0
    /\ sent = <<>>
    /\ result = None
    /\ input = <<>>
    /\ lexer_pos = 0
    /\ tokens = <<>>
    /\ parser_pos = 0
    /\ items = <<>>
    /\ arg = None
    /\ out = None

ResDiagnostic(d) == [kind |-> "Diagnostic", d |-> d]
ResRuntime(name) == [kind |-> "EntryNotFound", name |-> name]
ResOk(rs) == [kind |-> "Ok", responses |-> rs]

\* ------------------------------------------------------------------------
\* Validator::validate, one item of the loop at a time
\* ------------------------------------------------------------------------
ValidateEntry ==
    /\ pc = "validate"
    /\ pos < Len(file)
    /\ file[pos + 1].k = "Entry"
    /\ \E r \in {ValidateItemEntry(file[pos + 1], globals, entries)} :
          IF r.ok
          THEN /\ entries' = r.v
               /\ pos' = pos + 1
               /\ UNCHANGED <<pc, result>>
          ELSE /\ pc' = "done"
               /\ result' = Some(ResDiagnostic(r.err))
               /\ UNCHANGED <<entries, pos>>
    /\ UNCHANGED <<file, globals, entry_name, external_vars, names, responses, cur, sent>>
    /\ UNCHANGED <<front, pure>>

ValidateConst ==
    /\ pc = "validate"
    /\ pos < Len(file)
    /\ file[pos + 1].k = "Const"
    /\ \E r \in {ValidateItemConst(file[pos + 1], globals)} :
          IF r.ok
          THEN /\ globals' = r.v
               /\ pos' = pos + 1
               /\ UNCHANGED <<pc, result>>
          ELSE /\ pc' = "done"
               /\ result' = Some(ResDiagnostic(r.err))
               /\ UNCHANGED <<globals, pos>>
    /\ UNCHANGED <<file, entries, entry_name, external_vars, names, responses, cur, sent>>
    /\ UNCHANGED <<front, pure>>

\* the loop is over: validate returns the two maps
ValidateReturn ==
    /\ pc = "validate"
    /\ pos = Len(file)
    /\ pc' = "execute"
    /\ UNCHANGED <<file, pos, globals, entries, entry_name, external_vars, names,
                   responses, cur, sent, result>>
    /\ UNCHANGED <<front, pure>>

\* ------------------------------------------------------------------------
\* Machine::execute
\* ------------------------------------------------------------------------
\* the two binding loops.  The arguments are chosen here: validation does
\* not read them
Bind ==
    /\ pc = "execute"
    /\ \E en \in EntryFilters, ev \in ExternalVarSets :
         \E bound \in {BindGlobals(globals, BindExternal(ev))} :
            /\ entry_name' = en
            /\ external_vars' = ev
            /\ IF bound.ok
               THEN /\ names' = bound.v
                    /\ pc' = IF en.some THEN "filter" ELSE "loop"
               ELSE /\ names' = names
                    /\ pc' = "panic"
    /\ UNCHANGED <<file, pos, globals, entries, responses, cur, sent, result>>
    /\ UNCHANGED <<front, pure>>

\* Some(name) and no entry of that name
EntryNotFound ==
    /\ pc = "filter"
    /\ ~SelectEntry(entries, entry_name.v).some
    /\ pc' = "done"
    /\ result' = Some(ResRuntime(entry_name.v))
    /\ UNCHANGED <<file, pos, globals, entries, entry_name, external_vars, names,
                   responses, cur, sent>>
    /\ UNCHANGED <<front, pure>>

\* Some(name) and the entry of that name
ExecuteFiltered ==
    /\ pc = "filter"
    /\ SelectEntry(entries, entry_name.v).some
    /\ LET entry == SelectEntry(entries, entry_name.v).v
       IN \E o \in execute_entry(entry, names) :
            /\ sent' = Sent(sent, entry, o)
            /\ IF o.kind = "panic"
               THEN pc' = "panic" /\ result' = result
               ELSE /\ pc' = "done"
                    /\ result' = Some(ResOk(IF o.kind = "response" THEN <<o.response>>
                                            ELSE <<>>))
    /\ names' = NamesAfterEntry(names, SelectEntry(entries, entry_name.v).v)
    /\ UNCHANGED <<file, pos, globals, entries, entry_name, external_vars, responses, cur>>
    /\ UNCHANGED <<front, pure>>

\* None: one iteration of the loop over the entries
ExecuteNext ==
    /\ pc = "loop"
    /\ cur < Len(entries)
    /\ LET entry == entries[cur + 1]
       IN \E o \in execute_entry(entry, names) :
            /\ sent' = Sent(sent, entry, o)
            /\ IF o.kind = "panic"
               THEN pc' = "panic" /\ UNCHANGED <<responses, cur>>
               ELSE /\ pc' = pc
                    /\ cur' = cur + 1
                    /\ responses' = IF o.kind = "response"
                                    THEN PushResponse(responses, o.response)
                                    ELSE responses
    /\ names' = NamesAfterEntry(names, entries[cur + 1])
    /\ UNCHANGED <<file, pos, globals, entries, entry_name, external_vars, result>>
    /\ UNCHANGED <<front, pure>>

\* None: the loop is over
ExecuteReturn ==
    /\ pc = "loop"
    /\ cur = Len(entries)
    /\ pc' = "done"
    /\ result' = Some(ResOk(responses))
    /\ UNCHANGED <<file, pos, globals, entries, entry_name, external_vars, names,
                   responses, cur, sent>>
    /\ UNCHANGED <<front, pure>>

Next ==
    \/ ValidateEntry
    \/ ValidateConst
    \/ ValidateReturn
    \/ Bind
    \/ EntryNotFound
    \/ ExecuteFiltered
    \/ ExecuteNext
    \/ ExecuteReturn

Spec == Init /\ [][Next]_vars

\* ------------------------------------------------------------------------
\* Properties of Machine::execute
\* ------------------------------------------------------------------------
IsEntry(item) == item.k = "Entry"
HasRequest(item) == \E j \in 1..Len(item.body) : item.body[j].k = "Request"
IsRequestEntry(item) == IsEntry(item) /\ HasRequest(item)

\* the entry declarations of the file, in declaration order
FileEntries == SelectSeq(file, IsEntry)
FileEntryNames == {FileEntries[i].name.text : i \in 1..Len(FileEntries)}
FileEntry(name) == FileEntries[CHOOSE i \in 1..Len(FileEntries) : FileEntries[i].name.text = name]

\* execute runs or has run without an entry filter
Unfiltered ==
    /\ ~entry_name.some
    /\ \/ pc \in {"loop", "panic"}
       \/ pc = "done" /\ result.v.kind = "Ok"

AllCallsSucceeded == \A i \in 1..Len(sent) : sent[i].response.some

\* the responses execute holds, or has returned
Collected == IF pc = "done" THEN result.v.responses ELSE responses

\* C1: without an entry filter and while every transport call succeeds, the
\* transport has been called exactly once for each request-bearing entry
\* among the entries processed so far, in declaration order of the file,
\* the collected responses are the answers to these calls in the same
\* order, and at the return every entry of the file has been processed.
C1_DeclarationOrder ==
    (Unfiltered /\ AllCallsSucceeded) =>
        LET expected == SelectSeq(SubSeq(FileEntries, 1, cur), HasRequest)
        IN /\ pc # "panic"
           /\ pc = "done" => cur = Len(FileEntries)
           /\ Len(sent) = Len(expected)
           /\ \A i \in 1..Len(sent) : sent[i].entry = expected[i].name.text
           /\ Collected = [i \in 1..Len(sent) |-> sent[i].response.v]

\* two request-bearing entries were executed and answered differently
C1_Witness ==
    /\ pc = "done"
    /\ ~entry_name.some
    /\ result.v.kind = "Ok"
    /\ Len(sent) = 2
    /\ Len(result.v.responses) = 2
    /\ result.v.responses[1] # result.v.responses[2]

\* C2: with an entry filter, a name that no entry of the file has ends the
\* run with EntryNotFound(name) and no transport call; otherwise only the
\* entry of that name is executed: at most one call, for that entry, and
\* at most one response, which is the answer to that call.
C2_FilterSelects ==
    entry_name.some =>
        LET name == entry_name.v
        IN /\ Len(sent) <= 1
           /\ \A i \in 1..Len(sent) : sent[i].entry = name
           /\ (pc \in {"done", "panic"} /\ name \notin FileEntryNames) =>
                 /\ pc = "done"
                 /\ result = Some(ResRuntime(name))
                 /\ sent = <<>>
           /\ (pc = "done" /\ name \in FileEntryNames) =>
                 /\ result.v.kind = "Ok"
                 /\ Len(result.v.responses) <= 1
                 /\ HasRequest(FileEntry(name)) =>
                        /\ Len(sent) = 1
                        /\ result.v.responses = <<sent[1].response.v>>
           /\ (pc = "panic" /\ name \in FileEntryNames) =>
                 /\ Len(sent) = 1
                 /\ ~sent[1].response.some

\* the second of two request-bearing entries was selected and executed
C2_Witness ==
    /\ pc = "done"
    /\ entry_name = Some("f")
    /\ Len(entries) = 2
    /\ entries[1].request.some
    /\ entries[2].name.text = "f"
    /\ Len(sent) = 1
    /\ Len(result.v.responses) = 1

\* C3: once a transport call has failed, execute has returned an error
\* value that forwards the failure, no response is returned, and the failed
\* call is the last call.
C3_FailureForwarded ==
    \A k \in 1..Len(sent) :
        ~sent[k].response.some =>
            /\ result.some
            /\ result.v.kind \notin {"Ok"}
            /\ k = Len(sent)

\* C10: an entry without a request causes no transport call, no response
\* and no failure: every call is for a request-bearing entry; a filter on
\* such an entry returns the empty list; without a filter a failure can
\* only stop the run at a request-bearing entry, and at the return every
\* request-bearing entry of the file, also one that follows an entry
\* without a request, has been called, with one response each.
C10_NoRequestSkipped ==
    /\ \A i \in 1..Len(sent) :
          sent[i].entry \in FileEntryNames /\ HasRequest(FileEntry(sent[i].entry))
    /\ (entry_name.some /\ pc \in {"done", "panic"} /\ entry_name.v \in FileEntryNames
        /\ ~HasRequest(FileEntry(entry_name.v))) =>
          /\ pc = "done"
          /\ result = Some(ResOk(<<>>))
          /\ sent = <<>>
    /\ (Unfiltered /\ pc = "panic") =>
          /\ cur < Len(FileEntries)
          /\ HasRequest(FileEntries[cur + 1])
    /\ (Unfiltered /\ pc = "done") =>
          /\ \A i \in 1..Len(FileEntries) :
                HasRequest(FileEntries[i]) =>
                    \E j \in 1..Len(sent) : sent[j].entry = FileEntries[i].name.text
          /\ Len(result.v.responses) = Len(SelectSeq(FileEntries, HasRequest))

\* an entry with a Headers section and no request was skipped and the entry
\* after it was executed
C10_Witness ==
    /\ pc = "done"
    /\ ~entry_name.some
    /\ result.v.kind = "Ok"
    /\ Len(entries) = 2
    /\ ~entries[1].request.some
    /\ entries[1].headers.some
    /\ entries[2].request.some
    /\ Len(sent) = 1
    /\ sent[1].entry = entries[2].name.text
    /\ Len(result.v.responses) = 1

\* ------------------------------------------------------------------------
\* Properties of Validator::validate
\* ------------------------------------------------------------------------
\* validate has returned
ValidationOver == pc # "validate"

\* validate has returned a diagnostic
Failed == pc = "done" /\ result.v.kind = "Diagnostic"

\* the diagnostic validate has returned
Diag == result.v.d

RECURSIVE Concat(_)
Concat(seqs) == IF seqs = <<>> THEN <<>> ELSE Head(seqs) \o Concat(Tail(seqs))

RECURSIVE RefsOf(_)
\* the NameRefs of an expression of the file, in source order
RefsOf(expr) ==
    CASE expr.k = "NameRef" -> <<expr>>
      [] expr.k = "StringLiteral" ->
            Concat([i \in 1..Len(expr.parts) |->
                       IF expr.parts[i].k = "Expr" THEN RefsOf(expr.parts[i].expr) ELSE <<>>])
      [] expr.k = "Dictionary" ->
            Concat([i \in 1..Len(expr.fields) |->
                       RefsOf(expr.fields[i].key) \o RefsOf(expr.fields[i].value)])
      [] expr.k = "Array" -> Concat([i \in 1..Len(expr.elems) |-> RefsOf(expr.elems[i])])
      [] OTHER -> <<>>

\* the expression an entry item holds: the URL of a request, the body of a
\* section
ExprOf(entry_item) == IF entry_item.k = "Request" THEN entry_item.url ELSE entry_item.body

\* the NameRefs of the i-th item of the file, in source order
ItemRefs(i) ==
    IF file[i].k = "Const" THEN RefsOf(file[i].expr)
    ELSE Concat([j \in 1..Len(file[i].body) |-> RefsOf(ExprOf(file[i].body[j]))])

\* the names of the consts declared by the items before the i-th
DeclaredBefore(i) == {file[j].name.text : j \in {k \in 1..(i - 1) : file[k].k = "Const"}}

\* the NameRefs of the file to a name that no earlier const declares: names
\* declared later, the name of the const being declared, names never declared
BadRefs ==
    Concat([i \in 1..Len(file) |->
               LET Bad(ref) == ref.name \notin DeclaredBefore(i)
               IN SelectSeq(ItemRefs(i), Bad)])

\* C4: a file with a NameRef to a name that no earlier const declares is
\* never accepted: validation fails, and it fails with the diagnostic
\* "Unknown identifier" on the span of the first such reference unless it
\* has failed on something located before that reference.  An "Unknown
\* identifier" diagnostic is never given to anything else.
C4_UnknownIdentifier ==
    /\ (ValidationOver /\ BadRefs # <<>>) =>
          /\ Failed
          /\ \/ /\ Diag.message = <<"Unknown identifier">>
                /\ Diag.span = BadRefs[1].span
             \/ Diag.span.start < BadRefs[1].span.start
    /\ (ValidationOver /\ Failed /\ Diag.message = <<"Unknown identifier">>) =>
          /\ BadRefs # <<>>
          /\ Diag.span = BadRefs[1].span

\* a reference inside the template URL of an entry to a const that is
\* declared after the entry was rejected
C4_Witness ==
    /\ Failed
    /\ Len(file) = 2
    /\ file[1].k = "Entry"
    /\ file[2].k = "Const"
    /\ BadRefs # <<>>
    /\ BadRefs[1].name = file[2].name.text
    /\ file[1].body[1].k = "Request"
    /\ file[1].body[1].url.k = "StringLiteral"
    /\ Diag.message = <<"Unknown identifier">>
    /\ Diag.span = BadRefs[1].span
    /\ Diag.span.start > file[1].body[1].url.span.start

\* the items that declare again, as the same kind, a name that an earlier
\* item declares
Redeclarations ==
    {j \in 1..Len(file) :
        \E i \in 1..(j - 1) : file[i].k = file[j].k /\ file[i].name.text = file[j].name.text}

\* the first declaration of the name and kind of the j-th item
FirstDeclaration(j) ==
    CHOOSE i \in 1..j :
        /\ file[i].k = file[j].k
        /\ file[i].name.text = file[j].name.text
        /\ \A h \in 1..(i - 1) :
              ~(file[h].k = file[j].k /\ file[h].name.text = file[j].name.text)

\* the diagnostic is on the name of the j-th item and carries a second
\* label on the name of the first declaration
ReportsRedeclaration(j) ==
    /\ Failed
    /\ Diag.span = file[j].name.span
    /\ Len(Diag.labels) = 2
    /\ Diag.labels[1].span = file[j].name.span
    /\ Diag.labels[2].span = file[FirstDeclaration(j)].name.span

\* validate has stopped at the j-th item, every item before it accepted
StoppedAt(j) == pos = j - 1 /\ ValidationOver

\* the initialiser or the body of the j-th item, taken alone, is accepted
\* with the consts declared before it
ContentAccepted(j) ==
    IF file[j].k = "Const" THEN validate_expr(file[j].expr, globals).ok
    ELSE validate_entry(file[j], globals).ok

\* C5 as stated: validation never gets past the second of two declarations
\* of one name and kind, and when it stops there, every earlier item
\* accepted, the diagnostic is on the second name with a label on the first.
C5_DuplicateNames ==
    \A j \in Redeclarations :
        /\ pos < j
        /\ StoppedAt(j) => ReportsRedeclaration(j)

\* C5: validation never gets past the second of two declarations of one
\* name and kind, and when it stops there, every earlier item accepted and
\* the initialiser or body of the second declaration acceptable in itself,
\* the diagnostic is on the second name with a label on the name of the
\* first declaration; a second declaration whose own content is rejected
\* fails with the diagnostic of its content instead.
C5_DuplicateNamesValidContent ==
    \A j \in Redeclarations :
        /\ pos < j
        /\ StoppedAt(j) =>
              /\ Failed
              /\ ContentAccepted(j) => ReportsRedeclaration(j)
              /\ ~ContentAccepted(j) =>
                    /\ ~ReportsRedeclaration(j)
                    /\ Diag.span.start > file[j].name.span.start

\* a const declared twice was rejected at the second declaration with both
\* name spans
C5_Witness ==
    /\ Len(file) = 2
    /\ file[1].k = "Const"
    /\ 2 \in Redeclarations
    /\ StoppedAt(2)
    /\ ReportsRedeclaration(2)
    /\ Diag.labels[2].span = file[1].name.span
    /\ Diag.labels[2].span # Diag.span

\* what an entry item fills: the request, the Headers section, the Body
\* section, or nothing (a section of another name)
SlotOf(entry_item) ==
    IF entry_item.k = "Request" THEN "request"
    ELSE IF entry_item.name.text = "Headers" THEN "headers"
    ELSE IF entry_item.name.text = "Body" THEN "body"
    ELSE "none"

\* the entry items of the i-th item of the file that fill a slot an earlier
\* entry item of the same entry fills
Repeats(i) ==
    IF file[i].k # "Entry" THEN {}
    ELSE {j \in 1..Len(file[i].body) :
             /\ SlotOf(file[i].body[j]) # "none"
             /\ \E h \in 1..(j - 1) : SlotOf(file[i].body[h]) = SlotOf(file[i].body[j])}

NoSlots == [request |-> None, headers |-> None, body |-> None]

\* the entry items before the j-th of the i-th item are accepted, and the
\* j-th is accepted where it is the only item of its entry
WellTypedUpTo(i, j) ==
    /\ ValidateEntryItems(SubSeq(file[i].body, 1, j - 1), file[i].name.text, globals,
                          NoSlots).ok
    /\ ValidateEntryItem(file[i].body[j], file[i].name.text, globals, NoSlots).ok

\* the message of the diagnostic for a repeated entry item
RepeatMessage(name, entry_item) ==
    IF entry_item.k = "Request" THEN <<"Entry ", name, " contains multiple requests">>
    ELSE <<"Entry ", name, " contains multiple ",
           IF entry_item.name.text = "Headers" THEN "[Headers]" ELSE "[Body]", " sections">>

\* C6: a file in which an entry has a second request, a second Headers
\* section or a second Body section is never accepted; validation stops at
\* that entry or before it, and when it stops at that entry with the
\* repeated item and the items before it well typed, the diagnostic is the
\* "multiple requests" or "multiple sections" one on the repeated item.
\* Every accepted entry holds at most the one request, Headers section and
\* Body section that its body has.
C6_AtMostOnePerSlot ==
    /\ \A i \in 1..Len(file) :
          Repeats(i) # {} =>
              /\ pos < i
              /\ ValidationOver => Failed
              /\ \A j \in Repeats(i) :
                    (StoppedAt(i) /\ (\A h \in Repeats(i) : j <= h) /\ WellTypedUpTo(i, j)) =>
                        /\ Diag.message = RepeatMessage(file[i].name.text, file[i].body[j])
                        /\ Diag.span = file[i].body[j].span
    /\ \A e \in 1..Len(entries) :
          LET decl == FileEntry(entries[e].name.text)
              Count(slot) == Cardinality({j \in 1..Len(decl.body) :
                                             SlotOf(decl.body[j]) = slot})
          IN /\ Count("request") = (IF entries[e].request.some THEN 1 ELSE 0)
             /\ Count("headers") = (IF entries[e].headers.some THEN 1 ELSE 0)
             /\ Count("body") = (IF entries[e].body.some THEN 1 ELSE 0)

\* an entry with two well-typed requests was rejected on the second one
C6_Witness ==
    /\ Failed
    /\ pos < Len(file)
    /\ 2 \in Repeats(pos + 1)
    /\ file[pos + 1].body[1].k = "Request"
    /\ file[pos + 1].body[2].k = "Request"
    /\ WellTypedUpTo(pos + 1, 2)
    /\ Diag.message = <<"Entry ", file[pos + 1].name.text, " contains multiple requests">>
    /\ Diag.span = file[pos + 1].body[2].span

\* the expression a const is declared with by an item before the i-th, if
\* any: the one validation binds the name to
Declared(name, i) == \E j \in 1..(i - 1) : file[j].k = "Const" /\ file[j].name.text = name
DeclarationOf(name, i) ==
    CHOOSE j \in 1..(i - 1) :
        /\ file[j].k = "Const" /\ file[j].name.text = name
        /\ \A h \in 1..(j - 1) : ~(file[h].k = "Const" /\ file[h].name.text = name)

RECURSIVE Resolve(_, _)
\* an expression of the i-th item with every NameRef at its root followed to
\* the initialiser of the const it names; a NameRef that names no earlier
\* const stays
Resolve(expr, i) ==
    IF expr.k = "NameRef" /\ Declared(expr.name, i)
    THEN Resolve(file[DeclarationOf(expr.name, i)].expr, DeclarationOf(expr.name, i))
    ELSE expr

\* the kinds of expression whose type is not String
NonStringKinds == {"IntegerLiteral", "FloatLiteral", "NullLiteral", "Dictionary", "Array"}

\* the requests of the file: item index and entry item index
RequestsOfFile ==
    UNION {{<<i, j>> : j \in {h \in 1..Len(file[i].body) : file[i].body[h].k = "Request"}} :
              i \in {k \in 1..Len(file) : file[k].k = "Entry"}}

\* C7: a file with a request whose URL is an integer, float, null,
\* dictionary or array literal, or a NameRef to a const declared with one,
\* is never accepted: validation fails, with "Mismatched types" on the span
\* of that URL unless it has failed on something located before the URL.
\* A URL that is a string literal or a NameRef to a const declared with one
\* is never given that diagnostic, and every accepted request has a URL of
\* type String.
C7_UrlIsString ==
    /\ \A r \in RequestsOfFile :
          LET url == file[r[1]].body[r[2]].url
              kind == Resolve(url, r[1]).k
          IN /\ (ValidationOver /\ kind \in NonStringKinds) =>
                    /\ Failed
                    /\ \/ /\ Diag.message = <<"Mismatched types">>
                          /\ Diag.span = url.span
                          /\ Diag.labels = <<[message |-> <<"I was expecting a string here">>,
                                              span |-> url.span]>>
                       \/ Diag.span.start < url.span.start
             /\ (Failed /\ kind = "StringLiteral") =>
                    ~(Diag.message = <<"Mismatched types">> /\ Diag.span = url.span)
    /\ \A e \in 1..Len(entries) :
          entries[e].request.some => entries[e].request.v.url.ty = TyString

\* a request whose URL names a const declared with an integer was rejected
C7_Witness ==
    /\ Failed
    /\ \E r \in RequestsOfFile :
          LET url == file[r[1]].body[r[2]].url
          IN /\ url.k = "NameRef"
             /\ Resolve(url, r[1]).k = "IntegerLiteral"
             /\ Diag.message = <<"Mismatched types">>
             /\ Diag.span = url.span

\* the sections of the file: item index and entry item index
SectionsOfFile ==
    UNION {{<<i, j>> : j \in {h \in 1..Len(file[i].body) : file[i].body[h].k = "Section"}} :
              i \in {k \in 1..Len(file) : file[k].k = "Entry"}}

\* the kinds of expression whose type is not Dictionary
NonDictionaryKinds ==
    {"StringLiteral", "IntegerLiteral", "FloatLiteral", "NullLiteral", "Array"}

\* a dictionary of the i-th item whose keys are string literals and whose
\* values are all of type String, or not all
IsDictionary(expr, i) ==
    /\ Resolve(expr, i).k = "Dictionary"
    /\ \A f \in 1..Len(Resolve(expr, i).fields) :
          Resolve(expr, i).fields[f].key.k = "StringLiteral"
AllValuesString(expr, i) ==
    \A f \in 1..Len(Resolve(expr, i).fields) :
        Resolve(Resolve(expr, i).fields[f].value, i).k = "StringLiteral"
SomeValueNotString(expr, i) ==
    \E f \in 1..Len(Resolve(expr, i).fields) :
        Resolve(Resolve(expr, i).fields[f].value, i).k \in NonStringKinds

\* the diagnostic is the given one on the given span, with its one label
Reports(message, label, span) ==
    /\ Failed
    /\ Diag.message = <<message>>
    /\ Diag.span = span
    /\ Diag.labels = <<[message |-> <<label>>, span |-> span]>>

\* C8: a file with a Headers section whose expression is not a dictionary,
\* or is a dictionary with a value that is not a String, is never accepted:
\* validation fails, with "Unexpected type" resp. "Unexpected types" on the
\* span of the expression unless it has failed on something located before
\* it.  A Headers section whose expression is a dictionary with only String
\* values, the empty dictionary included, is never rejected for its
\* expression, and the Headers of every accepted entry are a dictionary
\* whose member types are all String.
C8_HeadersAllString ==
    /\ \A s \in SectionsOfFile :
          LET section == file[s[1]].body[s[2]]
              earlier == Diag.span.start < section.body.span.start
          IN section.name.text = "Headers" =>
                /\ (ValidationOver /\ Resolve(section.body, s[1]).k \in NonDictionaryKinds) =>
                       \/ Reports("Unexpected type", "I was expecting a dictionary here",
                                  section.body.span)
                       \/ Failed /\ earlier
                /\ (ValidationOver /\ IsDictionary(section.body, s[1])
                    /\ SomeValueNotString(section.body, s[1])) =>
                       \/ Reports("Unexpected types",
                                  "I was expecting all the values to be strings here",
                                  section.body.span)
                       \/ Failed /\ earlier
                /\ (Failed /\ IsDictionary(section.body, s[1])
                    /\ AllValuesString(section.body, s[1])) =>
                       Diag.span # section.body.span
    /\ \A e \in 1..Len(entries) :
          entries[e].headers.some =>
              /\ entries[e].headers.v.ty.t = "Dictionary"
              /\ \A m \in 1..Len(entries[e].headers.v.ty.m) :
                    entries[e].headers.v.ty.m[m] = TyString

\* a Headers section with one String value and one Integer value was
\* rejected
C8_Witness ==
    \E s \in SectionsOfFile :
        LET section == file[s[1]].body[s[2]]
        IN /\ section.name.text = "Headers"
           /\ section.body.k = "Dictionary"
           /\ Len(section.body.fields) = 2
           /\ section.body.fields[1].value.k = "StringLiteral"
           /\ section.body.fields[2].value.k = "IntegerLiteral"
           /\ Reports("Unexpected types", "I was expecting all the values to be strings here",
                      section.body.span)

\* the diagnostic is "Unknown section name" on the name of the section
ReportsUnknownSection(section) ==
    /\ Failed
    /\ Diag.message = <<"Unknown section name ", section.name.text>>
    /\ Diag.span = section.name.span

\* what C9 and its amendment share: an accepted file has no section of
\* another name than Headers and Body; a Body section whose expression is
\* not a dictionary fails with "Unexpected type" on the expression unless
\* validation has failed before it; a Body section whose expression is a
\* dictionary is never rejected for its expression, whatever its values;
\* the Body of every accepted entry is a dictionary.
SectionNamesAndBody ==
    /\ \A s \in SectionsOfFile :
          LET section == file[s[1]].body[s[2]]
          IN /\ section.name.text \notin {"Headers", "Body"} =>
                    /\ pos < s[1]
                    /\ ValidationOver => Failed
             /\ section.name.text = "Body" =>
                    /\ (ValidationOver
                        /\ Resolve(section.body, s[1]).k \in NonDictionaryKinds) =>
                           \/ Reports("Unexpected type", "I was expecting a dictionary here",
                                      section.body.span)
                           \/ Failed /\ Diag.span.start < section.body.span.start
                    /\ (Failed /\ IsDictionary(section.body, s[1])) =>
                           Diag.span # section.body.span
    /\ \A e \in 1..Len(entries) :
          entries[e].body.some => entries[e].body.v.ty.t = "Dictionary"

\* C9 as stated: a section of another name than Headers and Body fails with
\* "Unknown section name" on the span of the name unless validation has
\* failed on something located before the name; and the Body part.
C9_SectionNames ==
    /\ SectionNamesAndBody
    /\ \A s \in SectionsOfFile :
          LET section == file[s[1]].body[s[2]]
          IN (ValidationOver /\ section.name.text \notin {"Headers", "Body"}) =>
                \/ ReportsUnknownSection(section)
                \/ Failed /\ Diag.span.start < section.name.span.start

\* C9: a section of another name than Headers and Body, whose expression is
\* acceptable in itself, fails with "Unknown section name" on the span of
\* the name unless validation has failed on something located before the
\* name; when the expression of such a section is rejected, validation
\* fails with the diagnostic of the expression; and the Body part.
C9_SectionNamesValidExpression ==
    /\ SectionNamesAndBody
    /\ \A s \in SectionsOfFile :
          LET section == file[s[1]].body[s[2]]
          IN (StoppedAt(s[1]) /\ section.name.text \notin {"Headers", "Body"}) =>
                \/ /\ validate_expr(section.body, globals).ok
                   /\ ReportsUnknownSection(section)
                \/ /\ ~validate_expr(section.body, globals).ok
                   /\ Failed
                   /\ Diag = validate_expr(section.body, globals).err
                \/ Failed /\ Diag.span.start < section.name.span.start

\* a section named headers with a dictionary of Strings was rejected for
\* its name
C9_Witness ==
    \E s \in SectionsOfFile :
        LET section == file[s[1]].body[s[2]]
        IN /\ section.name.text = "headers"
           /\ section.body.k = "Dictionary"
           /\ AllValuesString(section.body, s[1])
           /\ ReportsUnknownSection(section)


\* ------------------------------------------------------------------------
\* C11: environment setup
\* ------------------------------------------------------------------------
\* execute has run its two binding loops without a panic
Bound ==
    \/ pc \in {"filter", "loop"}
    \/ pc = "done" /\ result.v.kind \in {"Ok", "EntryNotFound"}

ConstNamesOf(gs) == {gs[i].name.text : i \in 1..Len(gs)}

RECURSIVE ConstValue(_)
\* the value of the i-th const: its expression evaluated over the consts
\* declared before it and nothing else
ConstValue(i) ==
    eval_expr(globals[i].expr,
              [n \in ConstNamesOf(SubSeq(globals, 1, i - 1)) |->
                  ConstValue(CHOOSE j \in 1..(i - 1) : globals[j].name.text = n)]).v

\* C11: once execute has bound the external variables and then the consts,
\* names holds exactly the const names and the external names; every const
\* name holds the const's evaluated value, also when an external variable
\* has the same name, and every other external name holds the supplied text
\* as a String
C11_ConstsShadowExternals ==
    Bound =>
        /\ DOMAIN names = ConstNamesOf(globals) \cup DOMAIN external_vars
        /\ \A i \in 1..Len(globals) : names[globals[i].name.text] = ConstValue(i)
        /\ \A n \in DOMAIN external_vars \ ConstNamesOf(globals) :
              names[n] = VString(external_vars[n])

\* a const and an external variable of one name, with different values, and
\* a second const that reads the name
C11_Witness ==
    /\ Bound
    /\ \E i \in 1..Len(globals) :
          /\ globals[i].name.text \in DOMAIN external_vars
          /\ ConstValue(i) # VString(external_vars[globals[i].name.text])
          /\ \E j \in (i + 1)..Len(globals) :
                globals[j].expr.k = "NameRef" /\ globals[j].expr.name = globals[i].name.text

\* ========================================================================
\* Functions of the validator and of the evaluator applied on their own
\* ========================================================================
\* the elements of the array literals: scalars, a dictionary, arrays of one
\* type, of two types and of none
ElemShapes == {sInt, sStr, sFloat, sNull, sDictE, sArrE, ShArr(<<sInt>>),
               ShArr(<<sInt, sStr>>), ShArr(<<sStr, sInt>>)}
ArrayArgs == {[op |-> "array", elems |-> es] : es \in SeqsUpTo(ElemShapes, MaxElems)}

\* two array literals of scalars
PairElemShapes == {sInt, sStr, sNull}
PairArgs == {[op |-> "arrays", left |-> l, right |-> r] :
                l \in SeqsUpTo(PairElemShapes, MaxElems),
                r \in SeqsUpTo(PairElemShapes, MaxElems)}

\* the raw text of a literal run as the lexer cuts it: plain characters and
\* backslash pairs (Lexer::string skips the character after a backslash, so
\* a run never ends in a lone backslash and holds no bare quote)
PlainUnits == {<<"a">>, <<"n">>, <<"q">>}
EscapeUnits == {<<"\\", "n">>, <<"\\", "\\">>, <<"\\", "\"">>, <<"\\", "q">>}
RawUnits == PlainUnits \cup EscapeUnits
SpanStarts == {0, 3}
UnescapeArgs == {[op |-> "unescape", units |-> us, start |-> st] :
                    us \in SeqsUpTo(RawUnits, MaxUnits), st \in SpanStarts}

\* string literals: literal runs, never two in a row, and embedded integers
LiteralRuns == {<<"u">>, <<"\\", "n">>, <<"\\", "q">>, <<"u", "\\", "q">>,
                <<"\\", "n", "\\", "q">>}
CodeShapes == {ShCode(sInt), ShCode(ShInt(<<"1", "2">>))}
PartShapes == {ShLit(r) : r \in LiteralRuns} \cup CodeShapes
NoAdjacentLiterals(parts) ==
    \A i \in 1..(Len(parts) - 1) : ~(parts[i].k = "Literal" /\ parts[i + 1].k = "Literal")
StringArgs == {[op |-> "string", parts |-> ps, at |-> at] :
                  ps \in {q \in SeqsUpTo(PartShapes, MaxParts) : NoAdjacentLiterals(q)},
                  at \in SpanStarts}

\* a const `a` and a string literal that may embed it
EvalConstShapes == {ShStr(<<ShLit(<<"x", "\\", "\"", "y">>)>>), ShStr(<<ShLit(<<"\\", "n">>)>>),
                    ShStr(<<ShLit(<<"\\", "\\">>)>>), sStr, sInt, sFloat, sNull, sDictS,
                    ShArr(<<sStr, sInt>>)}
EvalPartShapes == {ShLit(<<"u">>), ShLit(<<"\\", "\"">>), ShLit(<<"\\", "n", "v">>),
                   ShCode(sRefA), ShCode(sInt)}
EvalArgs == {[op |-> "eval", konst |-> k, parts |-> ps] :
                k \in EvalConstShapes,
                ps \in {q \in SeqsUpTo(EvalPartShapes, MaxParts) : NoAdjacentLiterals(q)}}

\* dictionary values: up to MaxFields entries with distinct keys, each value
\* a scalar or a dictionary of two entries, and the same mapping inserted in
\* another order
RenderKeys == {<<"b">>, <<"a">>, <<"a", "b">>}
RenderScalars == {VInteger(<<"1">>), VString(<<"x">>)}
DistinctKeys(d) == \A i, j \in 1..Len(d) : d[i].key = d[j].key => i = j
DictsOf(values, n) ==
    {d \in SeqsUpTo([key : RenderKeys, value : values], n) : DistinctKeys(d)}
InnerDicts ==
    {VDictionary(<<[key |-> <<"a">>, value |-> VInteger(<<"2">>)],
                   [key |-> <<"b">>, value |-> VNull]>>),
     VDictionary(<<[key |-> <<"b">>, value |-> VNull],
                   [key |-> <<"a">>, value |-> VInteger(<<"2">>)]>>)}
RenderDicts == {VDictionary(d) : d \in DictsOf(RenderScalars \cup InnerDicts, MaxFields)}
RenderArgs ==
    UNION {{[op |-> "render", left |-> l, right |-> r] : r \in IterationOrders(l)} :
              l \in RenderDicts}

\* an entry with a POST request and one section whose expression is a
\* dictionary literal with pairwise distinct keys
CollectKeys == {<<"k">>, <<"j">>, <<"a">>}
KeyShape(key) == ShStr(<<ShLit(key)>>)
HeaderValueShapes == {sVal, sStr}
BodyValueShapes == {sInt, sVal, ShArr(<<sInt, sVal>>), ShArr(<<sVal, sInt>>),
                    ShDict(<<ShField(sKey, sInt), ShField(sKeyJ, sNull)>>)}
DistinctKeyShapes(fields) ==
    \A i, j \in 1..Len(fields) : fields[i].key = fields[j].key => i = j
FieldsOf(values) ==
    {fs \in SeqsUpTo({ShField(KeyShape(k), v) : k \in CollectKeys, v \in values}, MaxFields) :
        DistinctKeyShapes(fs)}
CollectArgs ==
    {[op |-> "collect", section |-> "Headers", fields |-> fs] :
        fs \in FieldsOf(HeaderValueShapes)}
    \cup {[op |-> "collect", section |-> "Body", fields |-> fs] :
             fs \in FieldsOf(BodyValueShapes)}

\* two spans of a text of MaxOffset bytes
Spans == {SpanNew(s, e) : s \in 0..MaxOffset, e \in 0..MaxOffset} 
SpanArgs == {[op |-> "spans", left |-> a, right |-> b] :
                a \in {sp \in Spans : sp.start <= sp.end},
                b \in {sp \in Spans : sp.start <= sp.end}}

PureArgs ==
    ArrayArgs \cup PairArgs \cup UnescapeArgs \cup StringArgs \cup EvalArgs
    \cup RenderArgs \cup CollectArgs \cup SpanArgs

InitPure ==
    /\ file = <<>>
    /\ pos = 0
    /\ globals = <<>>
    /\ entries = <<>>
    /\ pc = "pure"
    /\ entry_name = None
    /\ external_vars = NoVars
    /\ names = NoNames
    /\ responses = <<>>
    /\ cur = 0
    /\ sent = <<>>
    /\ result = None
    /\ input = <<>>
    /\ lexer_pos = 0
    /\ tokens = <<>>
    /\ parser_pos = 0
    /\ items = <<>>
    /\ arg \in PureArgs
    /\ out = None

\* validate_expr on an array literal written at byte 0, no const declared
ValidateArray ==
    /\ pc = "pure"
    /\ arg.op = "array"
    /\ ~out.some
    /\ out' = Some(validate_expr(LayExpr(ShArr(arg.elems), 0), <<>>))
    /\ UNCHANGED <<machine, pc, result, front, arg>>

\* validate_expr on two array literals, and the comparison of their types
ValidateArrays ==
    /\ pc = "pure"
    /\ arg.op = "arrays"
    /\ ~out.some
    /\ out' = Some([left |-> validate_expr(LayExpr(ShArr(arg.left), 0), <<>>),
                    right |-> validate_expr(LayExpr(ShArr(arg.right), 0), <<>>)])
    /\ UNCHANGED <<machine, pc, result, front, arg>>

\* unescape_string on the raw text of a literal run of a string literal
\* written at byte `start`
Unescape ==
    /\ pc = "pure"
    /\ arg.op = "unescape"
    /\ ~out.some
    /\ out' = Some(unescape_string(Concat(arg.units),
                                    SpanNew(arg.start, arg.start + Len(Concat(arg.units)) + 2)))
    /\ UNCHANGED <<machine, pc, result, front, arg>>

\* validate_expr on a string literal written at byte `at`
ValidateString ==
    /\ pc = "pure"
    /\ arg.op = "string"
    /\ ~out.some
    /\ out' = Some(validate_expr(LayExpr(ShStr(arg.parts), arg.at), <<>>))
    /\ UNCHANGED <<machine, pc, result, front, arg>>

\* the file `const a = <konst>` followed by an entry whose URL is the string
\* literal: the const validated and bound, the literal validated, then
\* Machine::eval_expr on it
EvalStringOf(konst, string) ==
    LET Evaluate(validated, bound) ==
            IF validated.ok /\ bound.ok
            THEN Some([validated |-> validated.v, names |-> bound.v,
                       value |-> eval_expr(validated.v, bound.v)])
            ELSE None
        Validated(gs) ==
            Evaluate(validate_expr(string, gs.v), BindGlobals(gs.v, NoNames))
    IN Validated(ValidateItemConst(konst, <<>>))

EvalString ==
    /\ pc = "pure"
    /\ arg.op = "eval"
    /\ ~out.some
    /\ \E konst \in {ShConst("a", arg.konst)} :
          out' = Some(EvalStringOf(LayItem(konst, 0),
                                   LayExpr(ShStr(arg.parts), WidthItem(konst) + 12)))
    /\ UNCHANGED <<machine, pc, result, front, arg>>

\* Display (through to_string) and stringify on two dictionary values
RenderingsOf(v) == [display |-> Display(v), stringify |-> stringify(v)]
Render ==
    /\ pc = "pure"
    /\ arg.op = "render"
    /\ ~out.some
    /\ out' = Some([left |-> RenderingsOf(arg.left), right |-> RenderingsOf(arg.right)])
    /\ UNCHANGED <<machine, pc, result, front, arg>>

\* the entry `entry e {POST "u" [section] {fields}}` validated, the
\* dictionary literal evaluated, and a request built for the entry
CollectEntry(section, fields) ==
    LayItem(ShEntry("e", <<ShRequest("POST", sStr), ShSection(section, ShDict(fields))>>), 0)
Collect ==
    /\ pc = "pure"
    /\ arg.op = "collect"
    /\ ~out.some
    /\ \E validated \in {validate_entry(CollectEntry(arg.section, arg.fields), <<>>)} :
          /\ validated.ok
          /\ \E request \in BuildRequests(validated.v, NoNames) :
                out' = Some([value |-> eval_expr(IF arg.section = "Headers"
                                                 THEN validated.v.headers.v
                                                 ELSE validated.v.body.v, NoNames),
                             request |-> request])
    /\ UNCHANGED <<machine, pc, result, front, arg>>

\* a.to(b) on two spans
JoinSpans ==
    /\ pc = "pure"
    /\ arg.op = "spans"
    /\ ~out.some
    /\ out' = Some(SpanTo(arg.left, arg.right))
    /\ UNCHANGED <<machine, pc, result, front, arg>>

NextPure ==
    \/ ValidateArray
    \/ ValidateArrays
    \/ Unescape
    \/ ValidateString
    \/ EvalString
    \/ Render
    \/ Collect
    \/ JoinSpans

SpecPure == InitPure /\ [][NextPure]_vars

\* ------------------------------------------------------------------------
\* C12: array member-type inference
\* ------------------------------------------------------------------------
Applied(op) == arg.op = op /\ out.some

\* the types of the elements of a validated array, as a set
ElementTypes(array) == {array.elems[i].ty : i \in 1..Len(array.elems)}

C13_OrderIndependent ==
    Applied("arrays") =>
        (ElementTypes(out.v.left.v) = ElementTypes(out.v.right.v)
            => TyEq(out.v.left.v.ty, out.v.right.v.ty))

\* the part of C13 about multiplicity alone: the same distinct types met in
\* the same order of first occurrence
FirstOccurrences(array) ==
    DedupTys([i \in 1..Len(array.elems) |-> array.elems[i].ty], <<>>)

C13_MultiplicityIndependent ==
    Applied("arrays") =>
        (FirstOccurrences(out.v.left.v) = FirstOccurrences(out.v.right.v)
            => TyEq(out.v.left.v.ty, out.v.right.v.ty))

\* ------------------------------------------------------------------------
\* C14: string unescaping
\* ------------------------------------------------------------------------
IsEscape(unit) == Len(unit) = 2 /\ unit[1] = "\\"
KnownEscape(unit) == IsEscape(unit) /\ unit[2] \in {"n", "\\", "\""}
BadEscapes(units) == {i \in 1..Len(units) : IsEscape(units[i]) /\ ~KnownEscape(units[i])}

\* what one character or one known escape sequence stands for
Meaning(unit) ==
    IF ~IsEscape(unit) THEN unit
    ELSE IF unit[2] = "n" THEN <<"\n">>
    ELSE <<unit[2]>>

\* C14: unescape_string turns backslash-n into a line feed, backslash-
\* backslash into one backslash and backslash-quote into a quote, copies
\* every other character in order, and returns no string but the diagnostic
\* of the first backslash that is followed by another character
C14_Unescape ==
    Applied("unescape") =>
        IF BadEscapes(arg.units) = {}
        THEN out.v = Ok(Concat([i \in 1..Len(arg.units) |-> Meaning(arg.units[i])]))
        ELSE /\ ~out.v.ok
             /\ LET earliest == CHOOSE i \in BadEscapes(arg.units) :
                                    \A j \in BadEscapes(arg.units) : i <= j
                IN out.v.err.message =
                      <<"Unknown character escape ", arg.units[earliest][2]>>

\* a run with a plain character and two different known escapes
C14_Witness ==
    /\ Applied("unescape")
    /\ out.v.ok
    /\ \E i, j, k \in 1..Len(arg.units) :
          /\ ~IsEscape(arg.units[i])
          /\ KnownEscape(arg.units[j]) /\ KnownEscape(arg.units[k])
          /\ arg.units[j] # arg.units[k]
    /\ Len(out.v.v) < Len(Concat(arg.units))

\* ------------------------------------------------------------------------
\* C15: the span of an invalid escape
\* ------------------------------------------------------------------------
\* index into raw of the character after the first backslash that starts an
\* unknown escape, 0 when there is none
RECURSIVE BadEscapeIndex(_, _)
BadEscapeIndex(raw, i) ==
    IF i >= Len(raw) THEN 0
    ELSE IF raw[i] # "\\" THEN BadEscapeIndex(raw, i + 1)
    ELSE IF raw[i + 1] \in {"n", "\\", "\""} THEN BadEscapeIndex(raw, i + 2)
    ELSE i + 1

\* the literal runs of the string that hold an unknown escape
BadRuns(parts) ==
    {p \in 1..Len(parts) : parts[p].k = "Literal" /\ BadEscapeIndex(parts[p].raw, 1) # 0}

\* byte of the source file at which the p-th part of the string literal
\* written at byte `at` begins: after the opening quote and the parts before
PartStart(parts, p, at) == at + 1 + WidthParts(SubSeq(parts, 1, p - 1))

\* byte of the source file of the offending character of the first bad run
OffendingByte(parts, at) ==
    LET p == CHOOSE r \in BadRuns(parts) : \A o \in BadRuns(parts) : r <= o
    IN PartStart(parts, p, at) + BadEscapeIndex(parts[p].raw, 1) - 1

\* C15: a string literal rejected for an invalid escape gets a diagnostic
\* whose span, and whose primary label's span, is the one byte of the
\* character after the backslash, in whichever literal run it stands
C15_EscapeSpan ==
    (Applied("string") /\ BadRuns(arg.parts) # {}) =>
        /\ ~out.v.ok
        /\ out.v.err.span = SpanNew(OffendingByte(arg.parts, arg.at),
                                    OffendingByte(arg.parts, arg.at) + 1)
        /\ out.v.err.labels[1].span = out.v.err.span

\* the same for an invalid escape in the literal run that opens the string
C15_EscapeSpanFirstRun ==
    (Applied("string") /\ 1 \in BadRuns(arg.parts)) =>
        /\ ~out.v.ok
        /\ out.v.err.span = SpanNew(OffendingByte(arg.parts, arg.at),
                                    OffendingByte(arg.parts, arg.at) + 1)
        /\ out.v.err.labels[1].span = out.v.err.span

\* ------------------------------------------------------------------------
\* C20: evaluation of a string literal
\* ------------------------------------------------------------------------
\* the text a part of a validated string literal contributes: a literal run
\* its unescaped characters, an embedded expression its value with a String
\* bare and any other value as Display writes it
Rendering(part, env) ==
    IF part.k = "Literal" THEN part.s
    ELSE LET Bare(value) == IF value.tag = "String" THEN value.s ELSE Display(value)
         IN Bare(eval_expr(part.expr, env).v)

Evaluated == Applied("eval") /\ out.v.some

\* C20: a string literal evaluates to the String made of its unescaped
\* literal runs and of the renderings of its embedded expressions, in source
\* order, a String value contributing its bare characters; stringify of a
\* String value is the same characters escaped, between quotes
C20_StringLiteral ==
    Evaluated =>
        LET validated == out.v.v.validated
            env == out.v.v.names
        IN /\ out.v.v.value =
                 Ok(VString(Concat([i \in 1..Len(validated.parts) |->
                                       Rendering(validated.parts[i], env)])))
           /\ \A n \in DOMAIN env :
                 env[n].tag = "String" =>
                    LET quoted == stringify(env[n])
                        inner == SubSeq(quoted, 2, Len(quoted) - 1)
                    IN /\ Display(env[n]) = env[n].s
                       /\ Len(quoted) >= 2
                       /\ quoted[1] = "\"" /\ quoted[Len(quoted)] = "\""
                       /\ \A c \in 1..Len(inner) : inner[c] # "\n"
                       /\ unescape_string(inner, SpanNew(0, Len(quoted))) = Ok(env[n].s)

\* a literal run with an escape, then a const holding a quote embedded: the
\* result has the quote bare and differs from what stringify would give
C20_Witness ==
    /\ Evaluated
    /\ out.v.v.value.ok
    /\ \E i, j \in 1..Len(out.v.v.validated.parts) :
          /\ i < j
          /\ out.v.v.validated.parts[i].k = "Literal"
          /\ "\n" \in {out.v.v.validated.parts[i].s[c] :
                          c \in 1..Len(out.v.v.validated.parts[i].s)}
          /\ out.v.v.validated.parts[j].k = "Expr"
          /\ out.v.v.validated.parts[j].expr.k = "NameRef"
    /\ out.v.v.names["a"] = VString(<<"x", "\"", "y">>)
    /\ stringify(out.v.v.names["a"]) = <<"\"", "x", "\\", "\"", "y", "\"">>

\* ========================================================================
\* The front end: parser::parse on a source text
\* ========================================================================
\* identifier-shaped lexemes, and what may stand before and after one
Words == {<<"e", "n", "t", "r", "y">>, <<"c", "o", "n", "s", "t">>,
          <<"n", "u", "l", "l">>, <<"G", "E", "T">>, <<"P", "O", "S", "T">>,
          <<"P", "U", "T">>, <<"P", "A", "T", "C", "H">>,
          <<"D", "E", "L", "E", "T", "E">>, <<"g", "e", "t">>,
          <<"E", "n", "t", "r", "y">>, <<"N", "U", "L", "L">>,
          <<"C", "o", "n", "s", "t">>, <<"P", "o", "s", "t">>,
          <<"n", "u", "l", "l", "s">>, <<"G", "E", "T", "S">>, <<"_", "G", "E", "T">>,
          <<"a">>, <<"e", "1">>}
WordPrefixes == {<<>>, <<" ">>, <<"\n">>}
WordSuffixes == {<<>>, <<" ", "x">>, <<"=", "1">>, <<"\n">>}
WordArgs == {[op |-> "word", pieces |-> <<p, w, s>>] :
                p \in WordPrefixes, w \in Words, s \in WordSuffixes}

\* short texts put together from lexemes, blanks and stray characters
TopFrags == {<<"a">>, <<"1">>, <<".">>, <<" ">>, <<"\n">>, <<"#">>, <<"{">>, <<"\"">>,
             <<"\\">>, <<"@">>, <<"\"", "u", "\"">>}
FragArgs == {[op |-> "frags", pieces |-> ps] : ps \in SeqsUpTo(TopFrags, MaxFrags)}

\* a string literal with one template: what stands before the string, the
\* literal run before the template, the pieces of the template and its end
TemplatePrefixes == {<<>>, <<"1", "\n", " ">>}
TemplateLiterals == {<<>>, <<"u">>}
RunFrags == {<<"a">>, <<" ">>, <<"\"">>, <<"\"", "b", "\"">>, <<"}">>, <<"@">>}
TemplateEnds == {<<"}", "}", "\"">>, <<"}", "}", " ", "\"">>, <<"\"">>, <<>>,
                 <<"}", "}">>}
TemplateArgs ==
    {[op |-> "template", pieces |-> <<p, <<"\"">>, l, <<"{", "{">>>> \o r \o <<e>>] :
        p \in TemplatePrefixes, l \in TemplateLiterals,
        r \in SeqsUpTo(RunFrags, MaxFrags), e \in TemplateEnds}

\* a const declaration, what separates it from what follows, and what
\* follows, with the length of its first token
ConstExprs == {<<"1">>, <<"\"", "u", "\"">>, <<"b">>, <<"[", "1", "]">>, <<"{", "}">>}
Separators == {<<>>, <<" ">>, <<"\n">>, <<" ", "#", "c", "\n">>, <<"\t">>}
AfterConst ==
    {[text |-> <<>>, first |-> 0],
     [text |-> <<"c", "o", "n", "s", "t", " ", "b", " ", "=", " ", "2">>, first |-> 5],
     [text |-> <<"e", "n", "t", "r", "y", " ", "e", " ", "{", "}">>, first |-> 5],
     [text |-> <<"}">>, first |-> 1],
     [text |-> <<"1">>, first |-> 1]}
ConstArgs ==
    {[op |-> "const", first |-> n.first,
      pieces |-> <<<<"c", "o", "n", "s", "t", " ", "a", " ", "=", " ">> \o e, s, n.text>>] :
        e \in ConstExprs, s \in Separators, n \in AfterConst}

\* a request line in an entry, what separates it from what follows, and
\* what follows
RequestMethods == {<<"G", "E", "T">>, <<"P", "O", "S", "T">>, <<"P", "U", "T">>,
                   <<"P", "A", "T", "C", "H">>, <<"D", "E", "L", "E", "T", "E">>}
RequestUrls == {<<"\"", "u", "\"">>, <<"b">>}
EntryOpenings == {<<"e", "n", "t", "r", "y", " ", "e", " ", "{">>,
                  <<"e", "n", "t", "r", "y", " ", "e", " ", "{", "\n">>}
AfterRequest ==
    {[text |-> <<>>, first |-> 0],
     [text |-> <<"}">>, first |-> 1],
     [text |-> <<"[", "H", "e", "a", "d", "e", "r", "s", "]", " ", "{", "}", " ", "}">>, first |-> 1],
     [text |-> <<"G", "E", "T", " ", "\"", "v", "\"", "\n", "}">>, first |-> 3],
     [text |-> <<"P", "O", "S", "T", " ", "\"", "v", "\"", " ", "}">>, first |-> 4]}
RequestArgs ==
    {[op |-> "request", first |-> n.first, method |-> m,
      pieces |-> <<o \o m \o <<" ">> \o u, s, n.text>>] :
        o \in EntryOpenings, m \in RequestMethods, u \in RequestUrls,
        s \in Separators, n \in AfterRequest}

\* two tokens with blanks, line feeds and comments between them, the second
\* a name, nothing, or a name inside a template behind the same gap
GapFrags == {<<" ">>, <<"\n">>, <<"#", "c">>, <<"\t">>}
GapHeads == {<<>>, <<"a">>}
GapArgs ==
    {[op |-> "gap", pieces |-> <<h, Concat(g), t>>] :
        h \in GapHeads, g \in SeqsUpTo(GapFrags, MaxFrags), t \in {<<>>, <<"b">>}}
    \cup {[op |-> "gap", pieces |-> <<h, Concat(g), <<"\"", "{", "{">> \o Concat(g)
                                                    \o <<"1", "}", "}", "\"">>>>] :
             h \in GapHeads, g \in SeqsUpTo(GapFrags, MaxFrags)}

\* a const whose initialiser is a string literal with one template: the
\* literal run before it and the lexemes of the template
RunLexemes == {<<"a">>, <<" ", "b">>, <<"1">>, <<"[">>, <<"]">>, <<",">>}
RunArgs ==
    {[op |-> "run",
      pieces |-> <<<<"c", "o", "n", "s", "t", " ", "a", "=", "\"">>, l, <<"{", "{">>,
                   Concat(r), <<"}", "}", "\"">>>>] :
        l \in TemplateLiterals, r \in SeqsUpTo(RunLexemes, MaxFrags)}

\* a string literal that is one template, with whitespace after `{{` and
\* before `}}`
Blanks == {<<>>, <<" ">>, <<"\n">>, <<"\t", " ">>}
SpacedLexemes == {<<"a">>, <<" ", "b">>, <<"1">>, <<"[">>, <<",">>}
SpacedArgs ==
    {[op |-> "spaced",
      pieces |-> <<<<"\"", "{", "{">>, lead, Concat(r), trail, <<"}", "}", "\"">>>>] :
        lead \in Blanks, trail \in Blanks, r \in SeqsUpTo(SpacedLexemes, MaxFrags)}

\* whole files: a const declaration (with a template, an array, a comment;
\* unterminated or without a comma), an entry (request, sections with
\* dictionaries and arrays; without a colon or a brace) and what follows
ProgramConsts ==
    {<<>>,
     <<"c", "o", "n", "s", "t", " ", "a", "=", "\"", "u", "{", "{", "b", "}", "}", "\"", "\n">>,
     <<"c", "o", "n", "s", "t", " ", "a", "=", "\"", "u", "{", "{", "b", "\"", "\n">>,
     <<"c", "o", "n", "s", "t", " ", "a", "=", "[", "1", ",", "2", ",", "]", "#", "c", "\n">>,
     <<"c", "o", "n", "s", "t", " ", "a", "=", "[", "1", " ", "2", "]", "\n">>,
     <<"c", "o", "n", "s", "t", " ", "a", "=", "\"", "u">>}
\* the entry of the file
ProgramEntries ==
    {<<>>,
     <<"e", "n", "t", "r", "y", " ", "e", "{", "G", "E", "T", " ", "a", "}">>,
     <<"e", "n", "t", "r", "y", " ", "e", "{", "G", "E", "T", " ", "a", "\n", "[", "H", "e", "a", "d", "e", "r", "s", "]", "{", "\"", "k", "\"", ":", "\"", "v", "\"", ",", "}", "}">>,
     <<"e", "n", "t", "r", "y", " ", "e", "{", "[", "B", "o", "d", "y", "]", "{", "\"", "j", "\"", ":", "[", "1", "]", ",", "\"", "k", "\"", ":", "{", "}", "}">>,
     <<"e", "n", "t", "r", "y", " ", "e", "{", "P", "O", "S", "T", " ", "\"", "u", "\"", " ", "[", "B", "o", "d", "y", "]", "{", "\"", "j", "\"", " ", "1", "}", "}">>,
     <<"e", "n", "t", "r", "y", "{">>,
     <<"@">>}
\* the end of the file
ProgramTails ==
    {<<>>,
     <<"\n", " ", "#", "c">>,
     <<"e", "n", "t", "r", "y", " ", "f", "{", "}">>,
     <<"}">>}
ProgramArgs ==
    {[op |-> "program", pieces |-> <<c, e, t>>] :
        c \in ProgramConsts, e \in ProgramEntries, t \in ProgramTails}

FrontArgs ==
    WordArgs \cup FragArgs \cup TemplateArgs \cup ConstArgs \cup RequestArgs \cup GapArgs
    \cup RunArgs \cup SpacedArgs \cup ProgramArgs

InitFront ==
    /\ file = <<>>
    /\ pos = 0
    /\ globals = <<>>
    /\ entries = <<>>
    /\ pc = "lex"
    /\ entry_name = None
    /\ external_vars = NoVars
    /\ names = NoNames
    /\ responses = <<>>
    /\ cur = 0
    /\ sent = <<>>
    /\ result = None
    /\ arg \in FrontArgs
    /\ input = Concat(arg.pieces)
    /\ lexer_pos = 0
    /\ tokens = <<>>
    /\ parser_pos = 0
    /\ items = <<>>
    /\ out = None

ResSourceFile(source_items) == [kind |-> "SourceFile", items |-> source_items]

\* one turn of the loop of Lexer::lex that gets a token or a diagnostic
LexToken ==
    /\ pc = "lex"
    /\ \E r \in {next_token(input, lexer_pos)} :
          /\ ~(r.ok /\ ~r.v.some)
          /\ IF r.ok
             THEN /\ tokens' = Append(tokens, r.v.v)
                  /\ lexer_pos' = r.pos
                  /\ UNCHANGED <<pc, result>>
             ELSE /\ pc' = "done"
                  /\ result' = Some(ResDiagnostic(r.err))
                  /\ UNCHANGED <<tokens, lexer_pos>>
    /\ UNCHANGED <<machine, input, parser_pos, items, pure>>

\* next_token finds the end of the input: lex returns the tokens and
\* parser::parse makes a Parser of them
LexReturn ==
    /\ pc = "lex"
    /\ \E r \in {next_token(input, lexer_pos)} :
          /\ r.ok /\ ~r.v.some
          /\ lexer_pos' = r.pos
    /\ pc' = "parse"
    /\ UNCHANGED <<machine, input, tokens, parser_pos, items, result, pure>>

\* one turn of the loop of Parser::parse
ParseItem ==
    /\ pc = "parse"
    /\ peek(tokens, parser_pos).some
    /\ \E r \in {parse_item(tokens, parser_pos)} :
          IF r.ok
          THEN /\ items' = Append(items, r.v)
               /\ parser_pos' = r.pos
               /\ UNCHANGED <<pc, result>>
          ELSE /\ pc' = "done"
               /\ result' = Some(ResDiagnostic(r.err))
               /\ UNCHANGED <<items, parser_pos>>
    /\ UNCHANGED <<machine, input, lexer_pos, tokens, pure>>

\* no token is left: parse returns the source file
ParseReturn ==
    /\ pc = "parse"
    /\ ~peek(tokens, parser_pos).some
    /\ pc' = "done"
    /\ result' = Some(ResSourceFile(items))
    /\ UNCHANGED <<machine, front, pure>>

NextFront ==
    \/ LexToken
    \/ LexReturn
    \/ ParseItem
    \/ ParseReturn

SpecFront == InitFront /\ [][NextFront]_vars

\* lex and parse run to their end: a program that is running takes its next
\* step, the loops of lex and parse are not suspended
SpecFrontFair == SpecFront /\ WF_vars(NextFront)

\* ------------------------------------------------------------------------
\* C16: keywords, methods and identifiers
\* ------------------------------------------------------------------------
\* the kind the language gives to an identifier-shaped lexeme
LexemeKind(text) ==
    CASE text = <<"e", "n", "t", "r", "y">> -> KKeyword("Entry")
      [] text = <<"c", "o", "n", "s", "t">> -> KKeyword("Const")
      [] text = <<"n", "u", "l", "l">> -> KKeyword("Null")
      [] text = <<"G", "E", "T">> -> KHttpMethod("GET")
      [] text = <<"P", "O", "S", "T">> -> KHttpMethod("POST")
      [] text = <<"P", "U", "T">> -> KHttpMethod("PUT")
      [] text = <<"P", "A", "T", "C", "H">> -> KHttpMethod("PATCH")
      [] text = <<"D", "E", "L", "E", "T", "E">> -> KHttpMethod("DELETE")
      [] OTHER -> KIdentifier(text)

\* the lexeme of a word input has been lexed
WordLexed == arg.op = "word" /\ Len(tokens) >= 1

\* C16: an identifier-shaped lexeme is a Keyword exactly when its text is
\* entry, const or null, the HttpMethod of its name exactly when its text is
\* GET, POST, PUT, PATCH or DELETE, and an Identifier carrying its text in
\* every other case, whatever stands around it
C16_LexemeKinds ==
    WordLexed =>
        /\ tokens[1].kind = LexemeKind(arg.pieces[2])
        /\ tokens[1].span = SpanNew(Len(arg.pieces[1]),
                                    Len(arg.pieces[1]) + Len(arg.pieces[2]))

\* the same for every lexeme but PATCH and DELETE
C16_LexemeKindsThreeMethods ==
    (WordLexed /\ arg.pieces[2] \notin {<<"P", "A", "T", "C", "H">>,
                                        <<"D", "E", "L", "E", "T", "E">>}) =>
        /\ tokens[1].kind = LexemeKind(arg.pieces[2])
        /\ tokens[1].span = SpanNew(Len(arg.pieces[1]),
                                    Len(arg.pieces[1]) + Len(arg.pieces[2]))

\* ------------------------------------------------------------------------
\* C17: newlines after const declarations and request lines
\* ------------------------------------------------------------------------
Last(s) == s[Len(s)]

\* the statement and what follows it are separate lexemes: a separator
\* stands between them, or the two adjacent characters cannot belong to one
\* lexeme
Separated ==
    \/ arg.pieces[2] # <<>>
    \/ arg.pieces[3] = <<>>
    \/ ~(/\ IsAlphanumeric(Last(arg.pieces[1])) \/ Last(arg.pieces[1]) = "_"
         /\ IsAlphanumeric(Head(arg.pieces[3])) \/ Head(arg.pieces[3]) = "_")
    \/ (IsDigit(Last(arg.pieces[1])) /\ IsAlphabetic(Head(arg.pieces[3])))

\* a line feed is crossed between the statement and the next token
CrossesNewline == \E i \in 1..Len(arg.pieces[2]) : arg.pieces[2][i] = "\n"

\* the span of the first token after the statement
NextTokenSpan ==
    SpanNew(Len(arg.pieces[1]) + Len(arg.pieces[2]),
            Len(arg.pieces[1]) + Len(arg.pieces[2]) + arg.first)

MissingNewline(span) ==
    [message |-> <<"Missing newline">>, span |-> span,
     labels |-> <<[message |-> <<"I was expecting a newline here">>, span |-> span]>>]

\* parse has returned for a statement input
Parsed(op) == arg.op = op /\ pc = "done" /\ Separated

\* the rule of C17 for the statement of the input
NewlineRule ==
    IF arg.pieces[3] # <<>> /\ ~CrossesNewline
    THEN result.v = ResDiagnostic(MissingNewline(NextTokenSpan))
    ELSE ~(result.v.kind = "Diagnostic"
           /\ result.v.d.message = <<"Missing newline">>
           /\ result.v.d.span = NextTokenSpan)

\* C17: after the expression of a const declaration, and after the URL of a
\* request line of any of the five methods, a next token that no crossed
\* line feed precedes makes parsing fail with "Missing newline" on that
\* token's span; the end of the input and a crossed line feed do not
C17_NewlineTerminates ==
    (Parsed("const") \/ Parsed("request")) => NewlineRule

\* the same for const declarations and GET request lines
C17_NewlineTerminatesConstAndGet ==
    (Parsed("const") \/ (Parsed("request") /\ arg.method = <<"G", "E", "T">>))
        => NewlineRule

\* ------------------------------------------------------------------------
\* C18: the failures of the lexer
\* ------------------------------------------------------------------------
\* The first of the three failures in a text, read off the text by the rules
\* of the language: outside a string, blanks and comments are skipped, a
\* quote opens a string, a digit run with an optional fraction and a name
\* are one lexeme each, the seven punctuation marks are lexemes, any other
\* character starts no token; in a string a backslash takes the character
\* after it, a quote closes the string and two open braces open a template;
\* in a template two close braces close it, and the end of the input or a
\* quote before them leaves it unterminated.
Punctuation == {":", ",", "=", "{", "[", "}", "]"}
NoFailure == [class |-> "none"]
Failure(class, start, end) == [class |-> class, span |-> SpanNew(start, end)]

RECURSIVE ScanCode(_, _, _, _)
RECURSIVE ScanString(_, _, _)
\* at position i outside a literal run; in_template tells whether a template
\* of the string opened at string_start is being read
ScanCode(text, i, in_template, string_start) ==
    IF i >= Len(text)
    THEN IF in_template THEN Failure("template", i, i) ELSE NoFailure
    ELSE LET c == text[i + 1]
         IN CASE IsWhitespace(c) -> ScanCode(text, i + 1, in_template, string_start)
              [] c = "#" -> ScanCode(text, skip_comment(text, i), in_template, string_start)
              [] c = "\"" ->
                    IF in_template THEN Failure("template", i, i)
                    ELSE ScanString(text, i + 1, i)
              [] in_template /\ c = "}" /\ i + 1 < Len(text) /\ text[i + 2] = "}" ->
                    ScanString(text, i + 2, string_start)
              [] c \in Punctuation -> ScanCode(text, i + 1, in_template, string_start)
              [] IsDigit(c) ->
                    LET Fraction(j) ==
                            IF j < Len(text) /\ text[j + 1] = "."
                            THEN eat_digits(text, j + 1) ELSE j
                    IN ScanCode(text, Fraction(eat_digits(text, i)), in_template,
                                string_start)
              [] IsAlphabetic(c) \/ c = "_" ->
                    ScanCode(text, EatIdentifier(text, i), in_template, string_start)
              [] OTHER -> Failure("character", i, i)

\* at position i inside a literal run of the string opened at string_start
ScanString(text, i, string_start) ==
    IF i >= Len(text) THEN Failure("string", string_start, Len(text))
    ELSE LET c == text[i + 1]
         IN CASE c = "\"" -> ScanCode(text, i + 1, FALSE, 0)
              [] c = "\\" ->
                    IF i + 1 >= Len(text) THEN Failure("string", string_start, Len(text))
                    ELSE ScanString(text, i + 2, string_start)
              [] c = "{" /\ i + 1 < Len(text) /\ text[i + 2] = "{" ->
                    ScanCode(text, i + 2, TRUE, string_start)
              [] OTHER -> ScanString(text, i + 1, string_start)

FirstFailure(text) == ScanCode(text, 0, FALSE, 0)

FailureMessage(class) ==
    CASE class = "string" -> <<"Unterminated string literal">>
      [] class = "template" -> <<"Unterminated template">>
      [] class = "character" -> <<"Unrecognized character">>


\* lex has returned a diagnostic (parse never got the tokens)
LexFailed == pc = "done" /\ lexer_pos < Len(input) /\ result.v.kind = "Diagnostic"
\* lex has returned, either way
LexReturned == pc = "parse" \/ pc = "done"

\* the diagnostic has a primary label on its own span, inside the input
WellLabelled(d) ==
    /\ Len(d.labels) = 1
    /\ d.labels[1].span = d.span
    /\ 0 <= d.span.start /\ d.span.start <= d.span.end /\ d.span.end <= Len(input)

\* C18: when the input ends before the closing quote of a string literal,
\* when the input ends or a quote is met inside a template before its two
\* closing braces, or when a character that starts no token is met, lex
\* returns a diagnostic and no tokens, with the message of that failure
\* ("Unterminated string literal", "Unterminated template", "Unrecognized
\* character"), a primary label on the diagnostic's own span, and that span
\* inside the input at the offending position.
C18_LexerFailures ==
    (LexReturned /\ FirstFailure(input).class # "none") =>
        /\ LexFailed
        /\ result.v.d.message = FailureMessage(FirstFailure(input).class)
        /\ result.v.d.span = FirstFailure(input).span
        /\ WellLabelled(result.v.d)

\* a blank inside a template: between its two open braces and the next two
\* close braces or quote
RECURSIVE BlankInTemplate(_, _, _)
BlankInTemplate(text, i, in_template) ==
    IF i >= Len(text) THEN FALSE
    ELSE LET c == text[i + 1]
             pair == IF i + 1 < Len(text) THEN <<c, text[i + 2]>> ELSE <<c>>
         IN CASE ~in_template /\ pair = <<"{", "{">> -> BlankInTemplate(text, i + 2, TRUE)
              [] ~in_template /\ c = "\\" -> BlankInTemplate(text, i + 2, FALSE)
              [] in_template /\ pair = <<"}", "}">> -> BlankInTemplate(text, i + 2, FALSE)
              [] in_template /\ c = "\"" -> FALSE
              [] in_template /\ (IsWhitespace(c) \/ c = "#") -> TRUE
              [] OTHER -> BlankInTemplate(text, i + 1, in_template)

\* C18, for the texts with no blank and no comment inside a template: the
\* three failures are reported as stated.
C18_LexerFailuresNoBlankInTemplate ==
    (LexReturned /\ FirstFailure(input).class # "none"
        /\ ~BlankInTemplate(input, 0, FALSE)) =>
        /\ LexFailed
        /\ result.v.d.message = FailureMessage(FirstFailure(input).class)
        /\ result.v.d.span = FirstFailure(input).span
        /\ WellLabelled(result.v.d)

\* C18, read from the side of the lexer: whatever diagnostic lex returns is
\* one of the three, with its primary label on its own span inside the input.
C18_LexerDiagnostics ==
    LexFailed =>
        /\ result.v.d.message \in {FailureMessage(c) : c \in {"string", "template", "character"}}
        /\ WellLabelled(result.v.d)

\* ------------------------------------------------------------------------
\* C19: the spans of the tokens
\* ------------------------------------------------------------------------
\* lex has returned the tokens
LexSucceeded == pc = "parse" \/ (pc = "done" /\ ~LexFailed)

\* the token with every span in it, those of the tokens of its templates
\* included, moved d bytes to the left
RECURSIVE MoveToken(_, _)
MoveKind(kind, d) ==
    IF kind.t # "String" THEN kind
    ELSE KString([i \in 1..Len(kind.parts) |->
                    IF kind.parts[i].k = "Code"
                    THEN PartCode([j \in 1..Len(kind.parts[i].tokens) |->
                                      MoveToken(kind.parts[i].tokens[j], d)])
                    ELSE kind.parts[i]])
MoveToken(token, d) ==
    [kind |-> MoveKind(token.kind, d),
     span |-> SpanNew(token.span.start - d, token.span.end - d),
     skipped_newline |-> token.skipped_newline]

\* the substring the span of a token bounds, lexed on its own
Relexed(token) == next_token(Slice(input, token.span.start, token.span.end), 0)

\* the span is not empty and lies inside the input
SpanInInput(span) == 0 <= span.start /\ span.start < span.end /\ span.end <= Len(input)

\* the substring is one lexeme: lexing it gives a token and uses it up
OneLexeme(token) ==
    LET Whole(r) == r.ok /\ r.v.some /\ r.pos = token.span.end - token.span.start
    IN Whole(Relexed(token))

\* C19 (as stated): for a successfully lexed input, the span of every token
\* is not empty, lies inside the input and bounds the substring the token
\* was made from, and lexing that substring on its own gives an equal token.
C19_TokenSpans ==
    LexSucceeded =>
        \A i \in 1..Len(tokens) :
            /\ SpanInInput(tokens[i].span)
            /\ OneLexeme(tokens[i])
            /\ Relexed(tokens[i]).v.v = tokens[i]

\* C19 (amended): for a successfully lexed input, the span of every token
\* is not empty, lies inside the input and bounds the substring the token
\* was made from: lexing that substring on its own gives one token that
\* uses it up, of the kind of the original with the spans inside it moved to
\* the start of the substring, with the span of the whole substring and no
\* line feed skipped; and the tokens follow one another in the input.
C19_TokenSpansMoved ==
    LexSucceeded =>
        /\ \A i \in 1..Len(tokens) :
              /\ SpanInInput(tokens[i].span)
              /\ OneLexeme(tokens[i])
              /\ Relexed(tokens[i]).v.v =
                    [MoveToken(tokens[i], tokens[i].span.start)
                        EXCEPT !.skipped_newline = FALSE]
        /\ \A i \in 1..(Len(tokens) - 1) : tokens[i].span.end <= tokens[i + 1].span.start

\* a string token with a template that holds a token, lexed after a line
\* feed and away from the start of the input
C19_Witness ==
    /\ LexSucceeded
    /\ \E i \in 1..Len(tokens) :
          /\ tokens[i].span.start > 0
          /\ tokens[i].skipped_newline
          /\ tokens[i].kind.t = "String"
          /\ \E p \in 1..Len(tokens[i].kind.parts) :
                /\ tokens[i].kind.parts[p].k = "Code"
                /\ tokens[i].kind.parts[p].tokens # <<>>

\* ------------------------------------------------------------------------
\* C21: the rendering of a dictionary
\* ------------------------------------------------------------------------
\* a comes before b in the lexicographic order of their bytes
Before(a, b) ==
    \E k \in 0..Len(a) :
        /\ k <= Len(b)
        /\ SubSeq(a, 1, k) = SubSeq(b, 1, k)
        /\ \/ k = Len(a) /\ k < Len(b)
           \/ k < Len(a) /\ k < Len(b) /\ CharCode(a[k + 1]) < CharCode(b[k + 1])

\* the keys in ascending order
Ascending(keys) ==
    CHOOSE s \in [1..Cardinality(keys) -> keys] :
        \A i, j \in 1..Cardinality(keys) : i < j => Before(s[i], s[j])

RECURSIVE Listing(_, _)
\* the text of a value with the keys of every dictionary in it in ascending
\* order; strings and keys quoted and escaped or bare
Listing(v, quoted) ==
    IF v.tag # "Dictionary" THEN (IF quoted THEN stringify(v) ELSE Display(v))
    ELSE LET Key(k) == IF quoted THEN stringify_string(k) ELSE k
             Listed(keys) ==
                 Join([i \in 1..Len(keys) |->
                          Key(keys[i]) \o <<":", " ">>
                          \o Listing(DictGet(v.d, keys[i]), quoted)], <<",", " ">>)
         IN <<"{">> \o Listed(Ascending(DictKeys(v.d))) \o <<"}">>

\* C21: two dictionaries that hold the same mapping, inserted in whatever
\* order, have the same Display text and the same stringify text, and each
\* text lists the keys in ascending lexicographic order, in the nested
\* dictionaries too.
C21_DictionaryRendering ==
    Applied("render") =>
        /\ out.v.left = out.v.right
        /\ out.v.left.display = Listing(arg.left, FALSE)
        /\ out.v.left.stringify = Listing(arg.left, TRUE)

\* two insertion orders of one mapping, the first not ascending, with a
\* nested dictionary whose entries are in two orders as well
C21_Witness ==
    /\ Applied("render")
    /\ Len(arg.left.d) >= 2
    /\ Before(arg.left.d[2].key, arg.left.d[1].key)
    /\ arg.right.d[1].key = arg.left.d[2].key
    /\ \E i, j \in 1..Len(arg.left.d) :
          /\ arg.left.d[i].key = arg.right.d[j].key
          /\ arg.left.d[i].value.tag = "Dictionary"
          /\ arg.left.d[i].value # arg.right.d[j].value

\* ------------------------------------------------------------------------
\* C22: dictionary and array literals keep the source order
\* ------------------------------------------------------------------------
RECURSIVE ValueInSourceOrder(_)
\* the value of a literal of the collect family, its entries and elements
\* in the order of the source
ValueInSourceOrder(sh) ==
    CASE sh.k = "IntegerLiteral" -> VInteger(sh.text)
      [] sh.k = "NullLiteral" -> VNull
      [] sh.k = "StringLiteral" -> VString(sh.parts[1].raw)
      [] sh.k = "Dictionary" ->
            VDictionary([i \in 1..Len(sh.fields) |->
                            [key |-> sh.fields[i].key.parts[1].raw,
                             value |-> ValueInSourceOrder(sh.fields[i].value)]])
      [] sh.k = "Array" ->
            VArray([i \in 1..Len(sh.elems) |-> ValueInSourceOrder(sh.elems[i])])

RECURSIVE JsonInSourceOrder(_)
\* the compact JSON text of such a literal, members and elements in the
\* order of the source
JsonInSourceOrder(sh) ==
    CASE sh.k = "IntegerLiteral" -> sh.text
      [] sh.k = "NullLiteral" -> <<"n", "u", "l", "l">>
      [] sh.k = "StringLiteral" -> <<"\"">> \o sh.parts[1].raw \o <<"\"">>
      [] sh.k = "Dictionary" ->
            <<"{">> \o Join([i \in 1..Len(sh.fields) |->
                               <<"\"">> \o sh.fields[i].key.parts[1].raw \o <<"\"", ":">>
                               \o JsonInSourceOrder(sh.fields[i].value)], <<",">>)
            \o <<"}">>
      [] sh.k = "Array" ->
            <<"[">> \o Join([i \in 1..Len(sh.elems) |-> JsonInSourceOrder(sh.elems[i])],
                            <<",">>) \o <<"]">>

\* the header pairs of a Headers literal in the order of the source
PairsInSourceOrder(fields) ==
    [i \in 1..Len(fields) |-> <<fields[i].key.parts[1].raw, fields[i].value.parts[1].raw>>]

\* C22: a dictionary literal with pairwise distinct keys evaluates to a
\* Dictionary whose entries are in the source order of its fields, the
\* header pairs made from a Headers dictionary are in that order, the JSON
\* object made for a Body lists its members in that order, and the elements
\* of an array keep their source order in the value and in the JSON array.
C22_SourceOrder ==
    Applied("collect") =>
        /\ out.v.value = Ok(ValueInSourceOrder(ShDict(arg.fields)))
        /\ out.v.request.ok
        /\ arg.section = "Headers" =>
              out.v.request.v.headers = PairsInSourceOrder(arg.fields)
        /\ arg.section = "Body" =>
              out.v.request.v.body = Some(JsonInSourceOrder(ShDict(arg.fields)))

\* C22, for what does not pass through the iteration of a dictionary: the
\* map eval_expr fills receives the fields in source order, a dictionary of
\* at most one entry with no dictionary inside gives the stated pairs and
\* JSON text, and so the elements of an array keep their order in the value
\* and in the JSON array.
C22_SourceOrderWithoutIteration ==
    Applied("collect") =>
        /\ out.v.value = Ok(ValueInSourceOrder(ShDict(arg.fields)))
        /\ out.v.request.ok
        /\ (Len(arg.fields) <= 1
              /\ \A i \in 1..Len(arg.fields) : arg.fields[i].value.k # "Dictionary") =>
              /\ arg.section = "Headers" =>
                    out.v.request.v.headers = PairsInSourceOrder(arg.fields)
              /\ arg.section = "Body" =>
                    out.v.request.v.body = Some(JsonInSourceOrder(ShDict(arg.fields)))

\* ------------------------------------------------------------------------
\* C23: every name that is evaluated is bound
\* ------------------------------------------------------------------------
\* self.names[name] found no binding
LookupFailed(r) == ~r.ok /\ r.err = "no entry found for key"

\* the entry the next step of execute hands to execute_entry, if any
EntriesToExecute ==
    IF pc = "loop" /\ cur < Len(entries) THEN {entries[cur + 1]}
    ELSE IF pc = "filter" /\ SelectEntry(entries, entry_name.v).some
    THEN {SelectEntry(entries, entry_name.v).v}
    ELSE {}

\* execute has stopped in a panic that is not a failure of the transport
PanicBeforeCall ==
    pc = "panic" /\ (sent = <<>> \/ sent[Len(sent)].response.some)

\* C23: for a file that passed validation and any external bindings, the
\* evaluation of the const initialisers in declaration order and of the URL,
\* Headers and Body of an executed entry finds a binding for every name it
\* looks up: no step of execute ends in the panic of a failed lookup.
C23_LookupsSucceed ==
    /\ pc = "execute" =>
          \A ev \in ExternalVarSets : ~LookupFailed(BindGlobals(globals, BindExternal(ev)))
    /\ \A entry \in EntriesToExecute :
          entry.request.some =>
              \A request \in BuildRequests(entry, names) : ~LookupFailed(request)
    /\ ~PanicBeforeCall

\* the const initialisers and the entries of a validated file, as sets of
\* the names they refer to
RECURSIVE NamesIn(_)
NamesIn(expr) ==
    CASE expr.k = "NameRef" -> {expr.name}
      [] expr.k = "StringLiteral" ->
            UNION {IF expr.parts[i].k = "Literal" THEN {} ELSE NamesIn(expr.parts[i].expr) :
                      i \in 1..Len(expr.parts)}
      [] expr.k = "Dictionary" ->
            UNION {NamesIn(expr.fields[i].key) \cup NamesIn(expr.fields[i].value) :
                      i \in 1..Len(expr.fields)}
      [] expr.k = "Array" -> UNION {NamesIn(expr.elems[i]) : i \in 1..Len(expr.elems)}
      [] OTHER -> {}

\* the consts were bound over an external binding of the same name, and a
\* request whose URL refers to such a const was sent
C23_Witness ==
    /\ pc \in {"loop", "done"}
    /\ \E i \in 1..Len(entries) :
          /\ entries[i].request.some
          /\ NamesIn(entries[i].request.v.url) \cap DOMAIN external_vars # {}
          /\ \E j \in 1..Len(sent) : sent[j].entry = entries[i].name.text

\* ------------------------------------------------------------------------
\* C24: the values have the types the validator assigned
\* ------------------------------------------------------------------------
RECURSIVE HasType(_, _)
\* the value has the tag of the type, and so have the values inside it
HasType(v, ty) ==
    CASE ty.t = "Union" -> \E i \in 1..Len(ty.m) : HasType(v, ty.m[i])
      [] ty.t = "Dictionary" ->
            /\ v.tag = "Dictionary"
            /\ \A i \in 1..Len(v.d) : \E j \in 1..Len(ty.m) : HasType(v.d[i].value, ty.m[j])
      [] ty.t = "Array" ->
            /\ v.tag = "Array"
            /\ \A i \in 1..Len(v.a) : HasType(v.a[i], ty.e)
      [] ty.t = "Unknown" -> FALSE
      [] OTHER -> v.tag = ty.t

\* the evaluation of the expression ends with a value of its type
EvaluatesToType(expr) ==
    LET Typed(value) == value.ok /\ HasType(value.v, expr.ty)
    IN Typed(eval_expr(expr, names))

\* string() or dictionary() met a value of another tag
AccessorFailed(r) == ~r.ok /\ r.err \in {"Expected a string", "Expected a dictionary"}

\* C24: for a validated file and any external bindings, those that have the
\* name of a const included, every evaluated expression has a value of the
\* type the validator gave it: each const, the URL of a request (a String),
\* a Headers expression (a Dictionary of Strings) and a Body expression (a
\* Dictionary); string() and dictionary() never meet another tag.
C24_TypeSoundness ==
    /\ pc = "execute" =>
          \A ev \in ExternalVarSets : ~AccessorFailed(BindGlobals(globals, BindExternal(ev)))
    /\ Bound =>
          /\ \A i \in 1..Len(globals) :
                HasType(names[globals[i].name.text], globals[i].expr.ty)
          /\ \A i \in 1..Len(entries) :
                entries[i].request.some =>
                    /\ EvaluatesToType(entries[i].request.v.url)
                    /\ eval_expr(entries[i].request.v.url, names).v.tag = "String"
                    /\ entries[i].headers.some =>
                          /\ EvaluatesToType(entries[i].headers.v)
                          /\ HasType(eval_expr(entries[i].headers.v, names).v,
                                     TyDictionary(<<TyString>>))
                    /\ entries[i].body.some =>
                          /\ EvaluatesToType(entries[i].body.v)
                          /\ eval_expr(entries[i].body.v, names).v.tag = "Dictionary"
                    /\ \A request \in BuildRequests(entries[i], names) : request.ok
    /\ ~PanicBeforeCall

\* a request was sent for an entry whose URL is a const that has the name
\* of an external binding and whose Headers are a dictionary with an entry
C24_Witness ==
    /\ Bound
    /\ \E i \in 1..Len(entries), j \in 1..Len(sent) :
          /\ sent[j].entry = entries[i].name.text
          /\ entries[i].request.v.url.k = "NameRef"
          /\ entries[i].request.v.url.name \in DOMAIN external_vars
          /\ entries[i].headers.some
          /\ sent[j].request.headers # <<>>

\* ------------------------------------------------------------------------
\* C25: the environment is frozen once the globals are bound
\* ------------------------------------------------------------------------
\* the environment the two binding loops make of the consts of the file and
\* the external bindings
BoundEnvironment == BindGlobals(globals, BindExternal(external_vars)).v

\* the requests of the log are requests of their entries built in env
BuiltIn(log, env) ==
    \A j \in 1..Len(log) :
        Ok(log[j].request) \in BuildRequests(MapGet(entries, log[j].entry), env)

\* C25: once the external bindings and the consts are bound, no step of
\* execute changes the name environment: the execution of an entry leaves
\* every binding as it was, and the request built for an entry is the one
\* built in the environment of the binding loops, whatever entries were
\* executed before it.
C25_EnvironmentFrozen ==
    Bound =>
        /\ names = BoundEnvironment
        /\ BuiltIn(sent, BoundEnvironment)

\* two entries were executed one after the other in an environment that
\* holds a binding
C25_Witness ==
    /\ Bound
    /\ Len(sent) >= 2
    /\ sent[1].entry # sent[2].entry
    /\ DOMAIN names # {}

\* ------------------------------------------------------------------------
\* C26: skipped_newline
\* ------------------------------------------------------------------------
\* a line feed lies in input[a..b]
LineFeedIn(a, b) == \E i \in (a + 1)..b : input[i] = "\n"

RECURSIVE NewlinesRecorded(_, _)
RECURSIVE NewlinesRecordedInParts(_, _)
\* every token of the sequence, which starts to be lexed at byte `from`,
\* records whether a line feed lies between the end of the token before it
\* (or `from`) and its start; so do the tokens of its templates
NewlinesRecorded(toks, from) ==
    \A i \in 1..Len(toks) :
        /\ toks[i].skipped_newline =
              LineFeedIn(IF i = 1 THEN from ELSE toks[i - 1].span.end, toks[i].span.start)
        /\ toks[i].kind.t = "String" =>
              NewlinesRecordedInParts(toks[i].kind.parts, toks[i].span.start + 1)

\* the parts of a string literal, the first of which starts at byte `at`
NewlinesRecordedInParts(parts, at) ==
    IF parts = <<>> THEN TRUE
    ELSE IF Head(parts).k = "Literal"
    THEN NewlinesRecordedInParts(Tail(parts), at + Len(Head(parts).raw))
    ELSE /\ NewlinesRecorded(Head(parts).tokens, at + 2)
         /\ NewlinesRecordedInParts(
                Tail(parts),
                IF Head(parts).tokens = <<>> THEN at + 4
                ELSE Head(parts).tokens[Len(Head(parts).tokens)].span.end + 2)

\* C26: for every token the lexer makes, skipped_newline is true exactly
\* when a line feed lies in the blanks and comments skipped between the end
\* of the token before it (or the start of the input) and its start; a line
\* feed crossed before a comment is not lost.
C26_SkippedNewline == NewlinesRecorded(tokens, 0)

\* a token lexed behind a line feed and a comment, and one behind a gap
\* with no line feed
C26_Witness ==
    /\ arg.op = "gap"
    /\ Len(tokens) = 2
    /\ tokens[2].skipped_newline
    /\ \E i \in 1..Len(arg.pieces[2]) :
          /\ arg.pieces[2][i] = "#"
          /\ \E j \in 1..(i - 1) : arg.pieces[2][j] = "\n"

\* ------------------------------------------------------------------------
\* C27: Span::to
\* ------------------------------------------------------------------------
Min(m, n) == IF m <= n THEN m ELSE n
Max(m, n) == IF m >= n THEN m ELSE n
\* the smallest span covering both
Cover(a, b) == SpanNew(Min(a.start, b.start), Max(a.end, b.end))
\* a neither starts after b nor ends after b
InOrder(a, b) == a.start <= b.start /\ a.end <= b.end

\* C27: for all spans a and b, a.to(b) has start = min(a.start, b.start) and
\* end = max(a.end, b.end): the smallest span covering both, whatever the
\* relative order of a and b.
C27_SpanCover == Applied("spans") => out.v = Cover(arg.left, arg.right)

\* C27 for two spans given in order: when a neither starts after b nor ends
\* after b, a.to(b) is the smallest span covering both.
C27_SpanCoverInOrder ==
    Applied("spans") /\ InOrder(arg.left, arg.right) => out.v = Cover(arg.left, arg.right)

\* whatever the order, a.to(b) runs from the start of a to the end of b
C27_SpanFromTo ==
    Applied("spans") => out.v.start = arg.left.start /\ out.v.end = arg.right.end

\* two separate spans joined in order
C27_Witness ==
    /\ Applied("spans")
    /\ arg.left.start < arg.left.end
    /\ arg.left.end < arg.right.start
    /\ arg.right.start < arg.right.end
    /\ out.v = SpanNew(arg.left.start, arg.right.end)

\* ------------------------------------------------------------------------
\* C28: one expression per template
\* ------------------------------------------------------------------------
ParseSucceeded == pc = "done" /\ result.v.kind = "SourceFile"

\* the tokens of the template of the string literal that initialises the
\* const, and the expression the parser made of them
RunTokens == LET parts == tokens[4].kind.parts IN parts[Len(parts)].tokens
RunExpr == LET parts == items[1].expr.parts IN parts[Len(parts)].expr

\* C28: a string literal parses only if the one expression parsed from each
\* of its templates takes every token of the template: an empty template
\* and a template with tokens left after the first expression both give a
\* Diagnostic.
C28_OneExpression ==
    arg.op = "run" /\ ParseSucceeded =>
        /\ RunTokens # <<>>
        /\ RunExpr.span = SpanNew(RunTokens[1].span.start,
                                  RunTokens[Len(RunTokens)].span.end)

\* what does hold: the expression is the one at the head of the template
\* and takes as many tokens as parse_expr takes there
C28_FirstExpression ==
    arg.op = "run" /\ ParseSucceeded =>
        /\ RunTokens # <<>>
        /\ parse_expr(RunTokens, 0).ok
        /\ RunExpr = parse_expr(RunTokens, 0).v

\* an empty template gives "Expected expression" at 0..0
C28_EmptyRun ==
    arg.op = "run" /\ pc = "done" /\ arg.pieces[4] = <<>> =>
        /\ result.v.kind = "Diagnostic"
        /\ result.v.d.message = <<"Expected expression">>
        /\ result.v.d.span = SpanNew(0, 0)

\* a template of two names parsed without a diagnostic
C28_Dropped ==
    /\ arg.op = "run"
    /\ ParseSucceeded
    /\ Len(RunTokens) = 2
    /\ RunExpr.k = "NameRef"

\* ------------------------------------------------------------------------
\* C29: whitespace inside a template
\* ------------------------------------------------------------------------
\* the same string literal written without the whitespace after `{{` and
\* before `}}`, lexed
Unspaced == next_token(arg.pieces[1] \o arg.pieces[3] \o arg.pieces[5], 0)
KindsOf(toks) == [i \in 1..Len(toks) |-> toks[i].kind]
\* lex has returned one String token whose one part is a Code part with
\* the token kinds of the unspaced literal
SameRun ==
    /\ LexSucceeded
    /\ Len(tokens) = 1
    /\ tokens[1].kind.t = "String"
    /\ Len(tokens[1].kind.parts) = 1
    /\ tokens[1].kind.parts[1].k = "Code"
    /\ KindsOf(tokens[1].kind.parts[1].tokens)
          = KindsOf(Unspaced.v.v.kind.parts[1].tokens)

\* C29: a template written with whitespace after `{{` and/or before the
\* closing `}}` lexes to a String token whose Code part holds the same token
\* kinds as the template written without that whitespace; `}}` is recognised
\* also behind whitespace.
C29_WhitespaceInsignificant ==
    arg.op = "spaced" /\ pc # "lex" => Unspaced.ok /\ SameRun

\* whitespace stands right before the closing `}}`
BlankBeforeClose == arg.pieces[4] # <<>> \/ (arg.pieces[3] = <<>> /\ arg.pieces[2] # <<>>)

\* what does hold: whitespace after `{{` that is followed by a token changes
\* nothing
C29_LeadingWhitespace ==
    arg.op = "spaced" /\ pc # "lex" /\ ~BlankBeforeClose => Unspaced.ok /\ SameRun

\* whitespace before `}}` makes lex fail at the closing quote
C29_TrailingWhitespace ==
    arg.op = "spaced" /\ pc # "lex" /\ BlankBeforeClose =>
        /\ LexFailed
        /\ result.v.d.message = <<"Unterminated template">>
        /\ result.v.d.span = SpanNew(Len(input) - 1, Len(input) - 1)


\* a template with a name behind whitespace, lexed
C29_LeadingLexed ==
    /\ arg.op = "spaced"
    /\ arg.pieces[2] # <<>>
    /\ arg.pieces[3] = <<"a">>
    /\ SameRun

\* ------------------------------------------------------------------------
\* C30: termination of lex and parse
\* ------------------------------------------------------------------------
\* from every position of the input: whitespace and comment skipping stay
\* inside the input and never go back, a token ends after the position it
\* was asked for, and no token means the end of the input
LexerAdvances ==
    \A p \in 0..Len(input) :
        /\ skip_whitespace(input, p).pos \in p..Len(input)
        /\ skip_comment(input, p) \in p..Len(input)
        /\ first(input, p) = Some("#") => skip_comment(input, p) > p
        /\ \E r \in {next_token(input, p)} :
              r.ok => IF r.v.some THEN r.pos \in (p + 1)..Len(input)
                      ELSE r.pos = Len(input)

RECURSIVE RunsAdvance(_, _, _)
\* the tokens of a run, and of the templates of its String tokens, each
\* start at or after byte `from`, end after their start and by byte `to`
RunsAdvance(toks, from, to) ==
    \A i \in 1..Len(toks) :
        /\ (IF i = 1 THEN from ELSE toks[i - 1].span.end) <= toks[i].span.start
        /\ toks[i].span.start < toks[i].span.end
        /\ toks[i].span.end <= to
        /\ toks[i].kind.t = "String" =>
              \A j \in 1..Len(toks[i].kind.parts) :
                  toks[i].kind.parts[j].k = "Code" =>
                      RunsAdvance(toks[i].kind.parts[j].tokens,
                                  toks[i].span.start + 1, toks[i].span.end - 1)

\* from every position of the tokens: an item, an entry item, a dictionary
\* field and an expression, when one is parsed, each take a token or more
ParserAdvances ==
    LexReturned =>
        \A p \in 0..(Len(tokens) - 1) :
            /\ \E r \in {parse_item(tokens, p)} :
                  r.ok => r.pos \in (p + 1)..Len(tokens)
            /\ \E r \in {opt_parse_entry_item(tokens, p)} :
                  r.ok => IF r.v.some THEN r.pos \in (p + 1)..Len(tokens) ELSE r.pos = p
            /\ \E r \in {parse_dictionary_field(tokens, p)} :
                  r.ok => r.pos \in (p + 1)..Len(tokens)
            /\ \E r \in {opt_parse_expr(tokens, p)} :
                  r.ok => IF r.v.some THEN r.pos \in (p + 1)..Len(tokens) ELSE r.pos = p

\* a turn of the token loop of lex, or of the item loop of parse, that does
\* not return moves the position forward
TurnAdvances ==
    /\ pc = "lex" /\ pc' = "lex" =>
          lexer_pos < lexer_pos' /\ lexer_pos' <= Len(input) /\ Len(tokens') = Len(tokens) + 1
    /\ pc = "parse" /\ pc' = "parse" =>
          parser_pos < parser_pos' /\ parser_pos' <= Len(tokens)
    /\ pc = "done" => pc' = "done"

\* lex and parse have ended with a source file or a diagnostic
Returned == pc = "done" /\ result.some /\ result.v.kind \in {"SourceFile", "Diagnostic"}

\* C30: lexing and parsing terminate on every input: every turn of the
\* lexer's loops advances the position or returns, every turn of the
\* parser's loops takes a token or returns, and lex and parse end with a
\* result or a Diagnostic.
C30_Terminates ==
    /\ [](LexerAdvances /\ RunsAdvance(tokens, 0, Len(input)) /\ ParserAdvances)
    /\ [][TurnAdvances]_vars
    /\ <>Returned

\* parse has returned a file of a const with a template and an entry with a
\* dictionary, lexed past a comment
C30_Witness ==
    /\ Returned
    /\ result.v.kind = "SourceFile"
    /\ Len(items) >= 2
    /\ \E i \in 1..Len(input) : input[i] = "#"
    /\ \E i \in 1..Len(tokens) : tokens[i].kind.t = "String" /\ Len(tokens[i].kind.parts) = 2
    /\ \E i \in 1..Len(tokens) : tokens[i].kind = KComma

====
